---- MODULE Spec2Model ----
(***************************************************************************)
(* Gatewarden: verification pipeline, authenticated cache record, file     *)
(* cache and the LicenseManager orchestration.                             *)
(*                                                                         *)
(* Representation.                                                         *)
(*  - Instants (DateTime<Utc>) are integers counting ticks; one second is  *)
(*    TicksPerSec ticks, so instants have a sub-second part as the system  *)
(*    clock's have.  A chrono TimeDelta is [secs, nanos] with nanos >= 0.  *)
(*  - Option<T> is a sequence: <<>> is None and <<x>> is Some(x).          *)
(*  - Result<(), GatewardenError> is a record [kind, age_seconds, code];   *)
(*    kind "Ok" is Ok(()).                                                 *)
(*  - SHA-256 and Ed25519 are ideal: sha256_b64 is injective, and a        *)
(*    signature verifies iff it was made by the key's owner over exactly   *)
(*    the bytes verified.                                                  *)
(*  - A string built by format! is the sequence of its pieces.             *)
(***************************************************************************)
EXTENDS Integers, Sequences, FiniteSets, TLC

(***************************************************************************)
(* Option and Result                                                       *)
(***************************************************************************)
None == <<>>
Some(x) == <<x>>
IsSome(o) == Len(o) = 1
IsNone(o) == Len(o) = 0

Err(kind) == [kind |-> kind, age_seconds |-> 0, code |-> ""]
Ok == Err("Ok")
IsOk(r) == r.kind = "Ok"

SignatureMissing == Err("SignatureMissing")
SignatureInvalid == Err("SignatureInvalid")
DigestMismatch == Err("DigestMismatch")
ResponseFromFuture == Err("ResponseFromFuture")
CacheTampered == Err("CacheTampered")
CacheExpired == Err("CacheExpired")
MissingLicense == Err("MissingLicense")
InvalidLicense == Err("InvalidLicense")
UsageLimitExceeded == Err("UsageLimitExceeded")
ResponseTooOld(age) == [kind |-> "ResponseTooOld", age_seconds |-> age, code |-> ""]
EntitlementMissing(c) == [kind |-> "EntitlementMissing", age_seconds |-> 0, code |-> c]
ProtocolError(m) == [kind |-> "ProtocolError", age_seconds |-> 0, code |-> m]
ConfigError(m) == [kind |-> "ConfigError", age_seconds |-> 0, code |-> m]
KeygenTransport(m) == [kind |-> "KeygenTransport", age_seconds |-> 0, code |-> m]
CacheIO(m) == [kind |-> "CacheIO", age_seconds |-> 0, code |-> m]

(***************************************************************************)
(* Time: chrono DateTime<Utc> and TimeDelta, std Duration                  *)
(***************************************************************************)
TicksPerSec == 2

\* DateTime - DateTime: a TimeDelta {secs, nanos} with 0 <= nanos < 1 s.
signed_duration_since(a, b) ==
    [secs |-> (a - b) \div TicksPerSec, nanos |-> (a - b) % TicksPerSec]

\* TimeDelta::num_seconds: whole seconds, rounded towards zero.
num_seconds(d) == IF d.secs < 0 /\ d.nanos > 0 THEN d.secs + 1 ELSE d.secs

\* A u64 is written <<hi, lo>> and stands for hi * 2^62 + lo, with hi in 0..4
\* and lo a small integer, negative for the values just below a multiple of
\* 2^62: u64::MAX is <<4, -1>>.  The values of the model never carry from lo
\* into hi, so two values compare as their pairs do.
U64(hi, lo) == <<hi, lo>>
\* `x as i64`: the two's complement reading of the same 64 bits.
as_i64(x) ==
    IF x[1] > 2 \/ (x[1] = 2 /\ x[2] >= 0) THEN <<x[1] - 4, x[2]>> ELSE x
\* a <= b on u64
u64_le(a, b) == a[1] < b[1] \/ (a[1] = b[1] /\ a[2] <= b[2])
\* a + b on u64 leaves the 64 bits: the sum is 2^64 or more.
u64_add_overflows(a, b) ==
    a[1] + b[1] > 4 \/ (a[1] + b[1] = 4 /\ a[2] + b[2] >= 0)
\* a + b on u64 where overflow is not checked: the sum modulo 2^64.
u64_wrapping_add(a, b) ==
    IF u64_add_overflows(a, b) THEN << a[1] + b[1] - 4, a[2] + b[2] >>
    ELSE << a[1] + b[1], a[2] + b[2] >>
\* An i64 that fits the model's integers, in the same <<hi, lo>> form.
I64(n) == <<0, n>>
I64Gt(a, b) == a[1] > b[1] \/ (a[1] = b[1] /\ a[2] > b[2])

\* std::time::Duration {secs: u64, nanos}; as_secs() drops the nanos.
Duration(secs, nanos) == [secs |-> secs, nanos |-> nanos]
from_secs(n) == Duration(U64(0, n), 0)
as_secs(d) == d.secs

(***************************************************************************)
(* crypto/digest.rs                                                        *)
(***************************************************************************)
\* A body is a byte buffer: [utf8, json, meta_valid, scope, max_uses, uses, id].
\* sha256_b64 is the base64 text of its SHA-256, one text per body.
sha256_b64(body) == [sha256_of |-> body]

\* A Digest header value is [lead, prefix, b64]: optional surrounding white
\* space, the text up to and including '=', and the rest.
DigestHeader(lead, prefix, b64) == [lead |-> lead, prefix |-> prefix, b64 |-> b64]
format_digest_header(body) == DigestHeader(FALSE, "sha-256=", sha256_b64(body))

\* trim, then strip_prefix("sha-256=") or strip_prefix("SHA-256=").
parse_digest_header(header) ==
    IF header.prefix = "sha-256=" \/ header.prefix = "SHA-256="
    THEN Some(header.b64)
    ELSE None

\* A digest check that has an opinion on the body when no header came.
verify_digest_BodyChecked(body, digest_header) ==
    IF IsNone(digest_header)
    THEN IF body.json THEN Ok ELSE DigestMismatch
    ELSE LET expected_b64 == parse_digest_header(digest_header[1]) IN
         IF IsNone(expected_b64) THEN DigestMismatch
         ELSE IF sha256_b64(body) # expected_b64[1] THEN DigestMismatch
         ELSE Ok

verify_digest_NoCompare(body, digest_header) ==
    IF IsNone(digest_header) THEN Ok
    ELSE IF IsNone(parse_digest_header(digest_header[1])) THEN DigestMismatch
    ELSE Ok

verify_digest(body, digest_header) ==
    IF IsNone(digest_header) THEN Ok
    ELSE LET expected_b64 == parse_digest_header(digest_header[1]) IN
         IF IsNone(expected_b64) THEN DigestMismatch
         ELSE IF sha256_b64(body) # expected_b64[1] THEN DigestMismatch
         ELSE Ok

(***************************************************************************)
(* crypto/signing.rs                                                       *)
(***************************************************************************)
\* str::to_lowercase on the method names and parameter names of the model.
to_lowercase(s) ==
    CASE s = "POST" -> "post"
      [] s = "Post" -> "post"
      [] s = "Algorithm" -> "algorithm"
      [] s = "ALGORITHM" -> "algorithm"
      [] s = "Signature" -> "signature"
      [] s = "KeyId" -> "keyid"
      [] OTHER -> s

\* A signing string with the method as it was given.
build_signing_string_MethodVerbatim(method, path, host, date, digest_header) ==
    LET base == << "(request-target): ", method, " ", path,
                   "\nhost: ", host, "\ndate: ", date >>
    IN IF IsSome(digest_header)
       THEN base \o << "\ndigest: ", digest_header[1] >>
       ELSE base

\* The signing string, as the sequence of the pieces format! concatenates.
build_signing_string(method, path, host, date, digest_header) ==
    LET base == << "(request-target): ", to_lowercase(method), " ", path,
                   "\nhost: ", host, "\ndate: ", date >>
    IN IF IsSome(digest_header)
       THEN base \o << "\ndigest: ", digest_header[1] >>
       ELSE base

(***************************************************************************)
(* crypto/verify.rs                                                        *)
(***************************************************************************)
\* The base64 text of a signature parameter stands for the bytes it decodes
\* to: [b64ok, len, signer, msg] is `len` bytes that are signer's Ed25519
\* signature over msg (signer "" : bytes that are nobody's signature).
SigBytes(b64ok, len, signer, msg) ==
    [b64ok |-> b64ok, len |-> len, signer |-> signer, msg |-> msg]
NoBytes == SigBytes(TRUE, 0, "", <<>>)

\* One comma-separated segment of a Keygen-Signature header: `k = value`,
\* where value is txt (or the base64 text pay) inside quotes q:
\* "both", "none" or "open" (a leading quote only).  eq = FALSE: no '='.
Segment(eq, k, q, txt, pay) == [eq |-> eq, k |-> k, q |-> q, txt |-> txt, pay |-> pay]
Param(k, txt) == Segment(TRUE, k, "both", txt, NoBytes)
SigParam(pay) == Segment(TRUE, "signature", "both", "b64", pay)

\* strip_prefix('"').and_then(strip_suffix('"')).unwrap_or(value)
\* q = "two": two pairs of quotes around the value, of which one goes.
strip_quotes(seg) ==
    [q |-> IF seg.q = "both" THEN "none" ELSE IF seg.q = "two" THEN "both" ELSE seg.q,
     txt |-> seg.txt, pay |-> seg.pay]

\* The HashMap built by the loop: insert overwrites, so the last occurrence
\* of a key is the one that stays.
LastIndex(header, key) ==
    LET hits == {i \in 1..Len(header) :
                    header[i].eq /\ to_lowercase(header[i].k) = key}
    IN IF hits = {} THEN 0 ELSE CHOOSE i \in hits : \A j \in hits : j <= i

parts_get(header, key) ==
    LET i == LastIndex(header, key)
    IN IF i = 0 THEN None ELSE Some(strip_quotes(header[i]))

\* Result<ParsedSignatureHeader, _>: [res, signature]; the algorithm is
\* "ed25519" whenever res is Ok, and key_id and headers are not used.
parse_signature_header(header) ==
    LET algorithm == parts_get(header, "algorithm")
        signature == parts_get(header, "signature")
        none == [q |-> "none", txt |-> "", pay |-> NoBytes]
    IN IF IsNone(algorithm)
       THEN [res |-> ProtocolError("Missing algorithm in signature header"),
             signature |-> none]
       ELSE IF ~(algorithm[1].txt = "ed25519" /\ algorithm[1].q = "none")
       THEN [res |-> ProtocolError("Unsupported signature algorithm"),
             signature |-> none]
       ELSE IF IsNone(signature)
       THEN [res |-> ProtocolError("Missing signature in signature header"),
             signature |-> none]
       ELSE [res |-> Ok, signature |-> signature[1]]

\* A configured public_key_hex is [len, hex, point, owner]: its length, whether
\* every character is a hex digit, whether the 32 bytes are a curve point, and
\* whose key it is.  Result<VerifyingKey, _> is [res, key].
PublicKeyHex(len, hex, point, owner) ==
    [len |-> len, hex |-> hex, point |-> point, owner |-> owner]

decode_public_key(hex_key) ==
    IF ~hex_key.hex \/ hex_key.len % 2 # 0
    THEN [res |-> ConfigError("Invalid public key hex"), key |-> ""]
    ELSE IF hex_key.len # 64
    THEN [res |-> ConfigError("Public key must be 32 bytes"), key |-> ""]
    ELSE IF ~hex_key.point
    THEN [res |-> ConfigError("Invalid Ed25519 public key"), key |-> ""]
    ELSE [res |-> Ok, key |-> hex_key.owner]

verify_ed25519(signature_b64, signing_string, verifying_key) ==
    IF ~signature_b64.pay.b64ok \/ signature_b64.q # "none"
    THEN ProtocolError("Invalid signature base64")
    ELSE IF signature_b64.pay.len # 64 THEN SignatureInvalid
    ELSE IF ~(signature_b64.pay.signer = verifying_key
              /\ signature_b64.pay.msg = signing_string)
    THEN SignatureInvalid
    ELSE Ok

(***************************************************************************)
(* crypto/freshness.rs                                                     *)
(***************************************************************************)
MAX_RESPONSE_AGE_SECONDS == 300
MAX_FUTURE_TOLERANCE_SECONDS == 60

\* A Date header value is [fmt, secs, off]: an RFC 2822 date that reads as
\* second `secs` in a zone `off` seconds east of UTC, or text that is no date.
DateHeader(secs, off) == [fmt |-> "rfc2822", secs |-> secs, off |-> off]
NotADate == [fmt |-> "text", secs |-> 0, off |-> 0]

\* Result<DateTime<Utc>, _>: [res, date]
parse_rfc2822_date(date_str) ==
    IF date_str.fmt = "rfc2822"
    THEN [res |-> Ok, date |-> (date_str.secs - date_str.off) * TicksPerSec]
    ELSE [res |-> ProtocolError("Invalid date header"), date |-> 0]

check_freshness_OffByOne(response_date, now) ==
    LET age_seconds == num_seconds(signed_duration_since(now, response_date)) IN
    IF age_seconds >= MAX_RESPONSE_AGE_SECONDS THEN ResponseTooOld(age_seconds)
    ELSE IF age_seconds <= -MAX_FUTURE_TOLERANCE_SECONDS THEN ResponseFromFuture
    ELSE Ok

check_freshness(response_date, now) ==
    LET age_seconds == num_seconds(signed_duration_since(now, response_date)) IN
    IF age_seconds > MAX_RESPONSE_AGE_SECONDS THEN ResponseTooOld(age_seconds)
    ELSE IF age_seconds < -MAX_FUTURE_TOLERANCE_SECONDS THEN ResponseFromFuture
    ELSE Ok

check_date_freshness(date_header, now) ==
    LET parsed == parse_rfc2822_date(date_header) IN
    IF ~IsOk(parsed.res) THEN parsed.res
    ELSE check_freshness(parsed.date, now)


(***************************************************************************)
(* client/http.rs: the captured response                                   *)
(***************************************************************************)
KeygenResponse(status, date, signature, digest, body, request_path, host) ==
    [status |-> status, date |-> date, signature |-> signature,
     digest |-> digest, body |-> body,
     request_path |-> request_path, host |-> host]

\* Result<&str, _>: the body itself when it is UTF-8.
body_str(response) ==
    IF response.body.utf8 THEN Ok ELSE ProtocolError("Invalid UTF-8 in body")

(***************************************************************************)
(* crypto/pipeline.rs                                                      *)
(***************************************************************************)
\* A signature-only verification that never looks at the digest header.
verify_response_signature_only_NoDigest(response, public_key_hex) ==
    IF IsNone(response.signature) THEN SignatureMissing
    ELSE IF IsNone(response.date) THEN SignatureMissing
    ELSE LET parsed_sig == parse_signature_header(response.signature[1]) IN
    IF ~IsOk(parsed_sig.res) THEN parsed_sig.res
    ELSE LET verifying_key == decode_public_key(public_key_hex) IN
    IF ~IsOk(verifying_key.res) THEN verifying_key.res
    ELSE LET signing_string ==
                 build_signing_string("post", response.request_path,
                                      response.host, response.date[1],
                                      response.digest)
         IN verify_ed25519(parsed_sig.signature, signing_string, verifying_key.key)

verify_response_signature_only(response, public_key_hex) ==
    IF IsNone(response.signature) THEN SignatureMissing
    ELSE IF IsNone(response.date) THEN SignatureMissing
    ELSE LET d == verify_digest(response.body, response.digest) IN
    IF ~IsOk(d) THEN d
    ELSE LET parsed_sig == parse_signature_header(response.signature[1]) IN
    IF ~IsOk(parsed_sig.res) THEN parsed_sig.res
    ELSE LET verifying_key == decode_public_key(public_key_hex) IN
    IF ~IsOk(verifying_key.res) THEN verifying_key.res
    ELSE LET signing_string ==
                 build_signing_string("post", response.request_path,
                                      response.host, response.date[1],
                                      response.digest)
         IN verify_ed25519(parsed_sig.signature, signing_string, verifying_key.key)

\* verify_response with the freshness check ahead of the signature check.
verify_response_FreshnessFirst(response, public_key_hex, now) ==
    IF IsNone(response.signature) THEN SignatureMissing
    ELSE IF IsNone(response.date) THEN SignatureMissing
    ELSE LET d == verify_digest(response.body, response.digest) IN
    IF ~IsOk(d) THEN d
    ELSE LET f == check_date_freshness(response.date[1], now) IN
    IF ~IsOk(f) THEN f
    ELSE verify_response_signature_only(response, public_key_hex)

\* verify_response with the digest compared before the headers are required.
verify_response_DigestFirst(response, public_key_hex, now) ==
    LET d == verify_digest(response.body, response.digest) IN
    IF ~IsOk(d) THEN d
    ELSE IF IsNone(response.signature) THEN SignatureMissing
    ELSE IF IsNone(response.date) THEN SignatureMissing
    ELSE LET parsed_sig == parse_signature_header(response.signature[1]) IN
    IF ~IsOk(parsed_sig.res) THEN parsed_sig.res
    ELSE check_date_freshness(response.date[1], now)

\* A verification that turns away every response whose status is not 2xx.
verify_response_SuccessOnly(response, public_key_hex, now) ==
    IF response.status < 200 \/ response.status > 299
    THEN ProtocolError("Unexpected status")
    ELSE IF IsNone(response.signature) THEN SignatureMissing
    ELSE IF IsNone(response.date) THEN SignatureMissing
    ELSE LET d == verify_digest(response.body, response.digest) IN
    IF ~IsOk(d) THEN d
    ELSE LET parsed_sig == parse_signature_header(response.signature[1]) IN
    IF ~IsOk(parsed_sig.res) THEN parsed_sig.res
    ELSE LET verifying_key == decode_public_key(public_key_hex) IN
    IF ~IsOk(verifying_key.res) THEN verifying_key.res
    ELSE LET signing_string ==
                 build_signing_string("post", response.request_path,
                                      response.host, response.date[1],
                                      response.digest)
             v == verify_ed25519(parsed_sig.signature, signing_string,
                                 verifying_key.key)
         IN IF ~IsOk(v) THEN v
            ELSE check_date_freshness(response.date[1], now)

verify_response(response, public_key_hex, now) ==
    IF IsNone(response.signature) THEN SignatureMissing
    ELSE IF IsNone(response.date) THEN SignatureMissing
    ELSE LET d == verify_digest(response.body, response.digest) IN
    IF ~IsOk(d) THEN d
    ELSE LET parsed_sig == parse_signature_header(response.signature[1]) IN
    IF ~IsOk(parsed_sig.res) THEN parsed_sig.res
    ELSE LET verifying_key == decode_public_key(public_key_hex) IN
    IF ~IsOk(verifying_key.res) THEN verifying_key.res
    ELSE LET signing_string ==
                 build_signing_string("post", response.request_path,
                                      response.host, response.date[1],
                                      response.digest)
             v == verify_ed25519(parsed_sig.signature, signing_string,
                                 verifying_key.key)
         IN IF ~IsOk(v) THEN v
            ELSE check_date_freshness(response.date[1], now)

(***************************************************************************)
(* protocol/models.rs                                                      *)
(***************************************************************************)
\* A body: [utf8, json, meta_valid, code, scope, max_uses, uses].  json says
\* whether the text deserializes into a KeygenValidateResponse; scope is
\* meta.scope.entitlements (None: no scope), max_uses and uses are
\* data.attributes.maxUses and .uses.
Body(utf8, json, meta_valid, code, scope, max_uses, uses) ==
    [utf8 |-> utf8, json |-> json, meta_valid |-> meta_valid, code |-> code,
     scope |-> scope, max_uses |-> max_uses, uses |-> uses]

\* serde_json::from_str::<KeygenValidateResponse>(body_str), as validate_online
\* calls it (manager.rs, lines 186-187)
from_str_KeygenValidateResponse(body) ==
    IF body.json THEN Ok ELSE ProtocolError("Parse error")

\* LicenseState::from_keygen_response (expires_at and detail are carried along
\* by the code and read by none of its checks; they are left out).
from_keygen_response(body) ==
    [valid |-> body.meta_valid,
     entitlements |-> IF IsSome(body.scope) THEN body.scope[1] ELSE <<>>,
     max_uses |-> body.max_uses,
     current_uses |-> body.uses,
     code |-> body.code]

(***************************************************************************)
(* policy/access.rs                                                        *)
(***************************************************************************)
Contains(seq, x) == \E i \in 1..Len(seq) : seq[i] = x

\* A check that reports the last missing code of required_entitlements.
check_access_LastMissing(state, required_entitlements) ==
    IF ~state.valid THEN InvalidLicense
    ELSE LET missing == {i \in 1..Len(required_entitlements) :
                            ~Contains(state.entitlements, required_entitlements[i])}
         IN IF missing = {} THEN Ok
            ELSE EntitlementMissing(
                     required_entitlements[CHOOSE i \in missing :
                                               \A j \in missing : i >= j])

check_access(state, required_entitlements) ==
    IF ~state.valid THEN InvalidLicense
    ELSE LET missing == {i \in 1..Len(required_entitlements) :
                            ~Contains(state.entitlements, required_entitlements[i])}
         IN IF missing = {} THEN Ok
            ELSE EntitlementMissing(
                     required_entitlements[CHOOSE i \in missing :
                                               \A j \in missing : i <= j])

from_license_state(state) ==
    [monthly_limit |-> state.max_uses, current_uses |-> state.current_uses]

\* `current + additional_uses` (line 75) overflows: a build with overflow
\* checks (a debug build) panics there.
allows_usage_overflows(caps, additional_uses) ==
    /\ IsSome(caps.monthly_limit)
    /\ IsSome(caps.current_uses)
    /\ u64_add_overflows(caps.current_uses[1], additional_uses)

\* A cap check that lets every count through.
allows_usage_Always(caps, additional_uses) == TRUE

\* allows_usage as a build without overflow checks (a release build)
\* computes it: the sum wraps.
allows_usage(caps, additional_uses) ==
    IF IsNone(caps.monthly_limit) THEN TRUE
    ELSE IF IsSome(caps.current_uses)
         THEN u64_le(u64_wrapping_add(caps.current_uses[1], additional_uses),
                     caps.monthly_limit[1])
         ELSE u64_le(additional_uses, caps.monthly_limit[1])

\* A combined check that looks at the cap before the access check.
check_access_with_usage_CapFirst(state, required_entitlements, additional_uses) ==
    IF ~allows_usage(from_license_state(state), additional_uses)
    THEN UsageLimitExceeded
    ELSE check_access(state, required_entitlements)

check_access_with_usage(state, required_entitlements, additional_uses) ==
    LET a == check_access(state, required_entitlements) IN
    IF ~IsOk(a) THEN a
    ELSE IF ~allows_usage(from_license_state(state), additional_uses)
         THEN UsageLimitExceeded
         ELSE Ok

(***************************************************************************)
(* cache/format.rs                                                         *)
(***************************************************************************)
CacheRecord_new(date, signature, digest, body, request_path, host, now) ==
    [date |-> date, signature |-> signature, digest |-> digest, body |-> body,
     cached_at |-> now, request_path |-> request_path, host |-> host]

\* A grace check in which no age is too large.
grace_check_NoExpiry(cached_at, offline_grace, now) ==
    IF num_seconds(signed_duration_since(now, cached_at)) < 0
    THEN CacheTampered
    ELSE Ok

\* The grace check of CacheRecord::verify (steps 6 and the future check).
\* A grace check that lets one more second through.
grace_check_OneSecondLate(cached_at, offline_grace, now) ==
    LET age == signed_duration_since(now, cached_at)
        grace_secs == as_i64(as_secs(offline_grace))
    IN IF I64Gt(I64(num_seconds(age) - 1), grace_secs) THEN CacheExpired
       ELSE IF num_seconds(age) < 0 THEN CacheTampered
       ELSE Ok

grace_check(cached_at, offline_grace, now) ==
    LET age == signed_duration_since(now, cached_at)
        grace_secs == as_i64(as_secs(offline_grace))
    IN IF I64Gt(I64(num_seconds(age)), grace_secs) THEN CacheExpired
       ELSE IF num_seconds(age) < 0 THEN CacheTampered
       ELSE Ok

CacheRecord_verify(self, public_key_hex, offline_grace, now) ==
    LET parsed_sig == parse_signature_header(self.signature) IN
    IF ~IsOk(parsed_sig.res) THEN parsed_sig.res
    ELSE LET verifying_key == decode_public_key(public_key_hex) IN
    IF ~IsOk(verifying_key.res) THEN verifying_key.res
    ELSE LET signing_string ==
                 build_signing_string("post", self.request_path, self.host,
                                      self.date, self.digest)
    IN IF ~IsOk(verify_ed25519(parsed_sig.signature, signing_string,
                               verifying_key.key))
       THEN CacheTampered
       ELSE IF IsSome(self.digest) /\ ~IsOk(verify_digest(self.body, self.digest))
       THEN CacheTampered
       ELSE grace_check(self.cached_at, offline_grace, now)

\* serde_json::to_string_pretty: the JSON text, as the sequence of its
\* members in field order; digest is skipped when it is None, and cached_at is
\* written as an RFC 3339 string.
to_json(self) ==
    << <<"date", self.date>>, <<"signature", self.signature>> >>
    \o (IF IsSome(self.digest) THEN << <<"digest", self.digest[1]>> >> ELSE <<>>)
    \o << <<"body", self.body>>, <<"cached_at", [rfc3339 |-> self.cached_at]>>,
          <<"request_path", self.request_path>>, <<"host", self.host>> >>

Member(json, name) ==
    LET hits == {i \in 1..Len(json) : json[i][1] = name}
    IN IF hits = {} THEN None ELSE Some(json[CHOOSE i \in hits : TRUE][2])

\* serde_json::from_str::<CacheRecord>: every field but digest is required.
\* Result<CacheRecord, _>: [res, record]
from_json(json) ==
    LET required == {"date", "signature", "body", "cached_at", "request_path", "host"}
    IN IF \E n \in required : IsNone(Member(json, n))
       THEN [res |-> CacheIO("Failed to deserialize cache"), record |-> <<>>]
       ELSE [res |-> Ok,
             record |-> << [date |-> Member(json, "date")[1],
                            signature |-> Member(json, "signature")[1],
                            digest |-> Member(json, "digest"),
                            body |-> Member(json, "body")[1],
                            cached_at |-> Member(json, "cached_at")[1].rfc3339,
                            request_path |-> Member(json, "request_path")[1],
                            host |-> Member(json, "host")[1]] >>]


(***************************************************************************)
(* cache/file.rs                                                           *)
(***************************************************************************)
\* hash_license_key: the 64 hex characters of SHA-256(key), written as
\* <<first 16 characters, remaining 48>>; distinct keys of the model have
\* distinct digests.
hash_license_key(license_key) == << "p16:" \o license_key, "r48:" \o license_key >>

\* A license_path that gives every key the same file.
license_path_Shared(license_key_hash) == "p16:a"

\* license_path: <cache_dir>/<first 16 characters>.json, named by its stem.
license_path(license_key_hash) == license_key_hash[1]
\* The temp file of save: <cache_dir>/<whole hash>.tmp
temp_path(license_key_hash) == license_key_hash

(***************************************************************************)
(* config.rs                                                               *)
(***************************************************************************)
GatewardenConfig(account_id, public_key_hex, required_entitlements, cache_namespace, offline_grace) ==
    [account_id |-> account_id, public_key_hex |-> public_key_hex,
     required_entitlements |-> required_entitlements,
     cache_namespace |-> cache_namespace, offline_grace |-> offline_grace]

GatewardenConfig_validate(c) ==
    IF c.account_id = "" THEN ConfigError("account_id cannot be empty")
    ELSE IF c.public_key_hex.len # 64
         THEN ConfigError("public_key_hex must be 64 hex characters")
    ELSE IF c.cache_namespace = "" THEN ConfigError("cache_namespace cannot be empty")
    ELSE Ok


(***************************************************************************)
(* The world of the LicenseManager model                                   *)
(***************************************************************************)
DateSecs == 1000
GraceSecs == 86400

ACCOUNT == "test-account"
HOST == "api.keygen.sh"
\* KeygenClient::validate_key: format!("/v1/accounts/{}/licenses/actions/validate-key")
request_path_of(account_id) ==
    << "/v1/accounts/", account_id, "/licenses/actions/validate-key" >>

TEST_PUBLIC_KEY_HEX == PublicKeyHex(64, TRUE, TRUE, "keygen")
\* 64 characters that are not hex digits.
NotHexKey == PublicKeyHex(64, FALSE, FALSE, "")
ShortKey == PublicKeyHex(4, TRUE, FALSE, "")
\* 64 hex digits whose 32 bytes are no point of the curve.
NotPointKey == PublicKeyHex(64, TRUE, FALSE, "")

\* Duration::from_secs(1 << 63): a grace meant never to run out.
HugeGrace == Duration(U64(2, 0), 0)

test_config(public_key_hex, offline_grace) ==
    GatewardenConfig(ACCOUNT, public_key_hex, <<"PRO">>, "gatewarden-test",
                     offline_grace)

Configs ==
    { test_config(TEST_PUBLIC_KEY_HEX, from_secs(GraceSecs)),
      test_config(TEST_PUBLIC_KEY_HEX, HugeGrace),
      test_config(NotHexKey, from_secs(GraceSecs)),
      test_config(ShortKey, from_secs(GraceSecs)),
      test_config(NotPointKey, from_secs(GraceSecs)),
      GatewardenConfig("", TEST_PUBLIC_KEY_HEX, <<"PRO">>, "gatewarden-test",
                       from_secs(GraceSecs)),
      GatewardenConfig(ACCOUNT, TEST_PUBLIC_KEY_HEX, <<"PRO">>, "",
                       from_secs(GraceSecs)) }

\* License keys a caller passes; "" is the empty key.
Keys == {"", "k1"}
Hashes == {hash_license_key(k) : k \in Keys \ {""}}
Stems == {license_path(h) : h \in Hashes}

\* Clock readings, in ticks: around the response date and around the end of
\* the offline grace counted from it.
NowPoints ==
    { (DateSecs - MAX_FUTURE_TOLERANCE_SECONDS - 1) * TicksPerSec,
      DateSecs * TicksPerSec,
      (DateSecs + GraceSecs) * TicksPerSec,
      (DateSecs + GraceSecs) * TicksPerSec + 1,
      (DateSecs + GraceSecs + 1) * TicksPerSec }

\* Bodies the service (or whoever answers in its place) may send.
BodyOk == Body(TRUE, TRUE, TRUE, "VALID", Some(<<"PRO">>), Some(U64(0, 5)), Some(U64(0, 5)))
BodyInvalid == Body(TRUE, TRUE, FALSE, "EXPIRED", Some(<<"PRO">>), None, None)
BodyNoEnt == Body(TRUE, TRUE, TRUE, "VALID", Some(<<"BASIC">>), None, None)
BodyOverCap ==
    Body(TRUE, TRUE, TRUE, "VALID", Some(<<"BASIC", "PRO">>), Some(U64(0, 5)), Some(U64(0, 6)))
BodyNotJson == Body(TRUE, FALSE, FALSE, "", None, None, None)
BodyNotUtf8 == Body(FALSE, FALSE, FALSE, "", None, None, None)
Bodies == {BodyOk, BodyInvalid, BodyNoEnt, BodyOverCap, BodyNotJson, BodyNotUtf8}

TheDate == DateHeader(DateSecs, 0)
DateOptions == {None, Some(TheDate), Some(NotADate)}

DigestOptions(body) ==
    { None,
      Some(format_digest_header(body)),
      Some(format_digest_header(IF body = BodyOk THEN BodyInvalid ELSE BodyOk)),
      Some(DigestHeader(FALSE, "md5=", sha256_b64(body))) }

Ed25519Param == Param("algorithm", "ed25519")
\* The Keygen-Signature headers tried over signing string ss: the service's
\* own signature, 64 bytes that are no signature, a signature of the wrong
\* length, text that is not base64, and another algorithm.
SignatureOptions(ss) ==
    { None,
      Some(<< Ed25519Param, SigParam(SigBytes(TRUE, 64, "keygen", ss)) >>),
      Some(<< Ed25519Param, SigParam(SigBytes(TRUE, 64, "", ss)) >>),
      Some(<< Ed25519Param, SigParam(SigBytes(TRUE, 4, "", <<>>)) >>),
      Some(<< Ed25519Param, SigParam(SigBytes(FALSE, 0, "", <<>>)) >>),
      Some(<< Param("algorithm", "rsa-sha256"),
              SigParam(SigBytes(TRUE, 64, "keygen", ss)) >>) }

SignedDate(date) == IF IsSome(date) THEN date[1] ELSE TheDate

\* The signing string of a response: what the service signs for it.
signing_string_of(r) ==
    build_signing_string("post", r.request_path, r.host, SignedDate(r.date),
                         r.digest)

\* Every response of the options above.
AllResponses ==
    UNION { UNION { UNION {
        { KeygenResponse(200, date, sig, digest, body, request_path_of(ACCOUNT), HOST) :
            sig \in SignatureOptions(
                      build_signing_string("post", request_path_of(ACCOUNT), HOST,
                                           SignedDate(date), digest)) }
        : digest \in DigestOptions(body) }
        : date \in DateOptions }
        : body \in Bodies }

GoodDigests(body) == { None, Some(format_digest_header(body)) }
GoodSignature(ss) ==
    Some(<< Ed25519Param, SigParam(SigBytes(TRUE, 64, "keygen", ss)) >>)

\* A response with the service's own headers: its date, no digest or the
\* digest of the body, and its signature over these.
GoodHeaders(r) ==
    /\ r.date = Some(TheDate)
    /\ r.digest \in GoodDigests(r.body)
    /\ r.signature = GoodSignature(signing_string_of(r))

\* What the transport hands to the manager: every combination of headers
\* around the good body, and every body under the service's own headers.
\* The same under a status that is not a success: the client captures the
\* status with the headers and the body of whatever response came
\* (http.rs, lines 40-77), so the service's own headers around the valid
\* and the invalid body come under these statuses too.
ErrorStatuses == {404}

Responses ==
    { r \in AllResponses : r.body = BodyOk \/ GoodHeaders(r) }
    \cup { [r EXCEPT !.status = st] :
             r \in { x \in AllResponses :
                       GoodHeaders(x) /\ x.body \in {BodyOk, BodyInvalid} },
             st \in ErrorStatuses }

TransportErrors == { KeygenTransport("Request failed"),
                     KeygenTransport("Failed to read body") }

(***************************************************************************)
(* State                                                                   *)
(***************************************************************************)
VARIABLES
    config,        \* the manager's GatewardenConfig
    now,           \* what clock.now_utc() returns, in ticks
    files,         \* the .json files of the cache directory: stem -> Option(text)
    tmps,          \* the .tmp files of the cache directory: hash -> Option(text)
    pc,            \* where the manager's current call stands
    op,            \* the public method being run: "validate_key" or "check_access"
    license_key,   \* its argument
    response,      \* Option: the captured KeygenResponse
    online_error,  \* the error validate_online returned (Ok: none)
    record,        \* Option: the CacheRecord built or loaded
    result,        \* what the last call returned
    log,           \* the steps the current (or last) call has taken
    saved_at       \* stem -> Option(cached_at of the record the last online
                   \*   success stored there, if not deleted or cleared since)

vars == << config, now, files, tmps, pc, op, license_key, response,
           online_error, record, result, log, saved_at >>

Pending == [ret |-> "Pending", err |-> Ok, valid |-> FALSE, from_cache |-> FALSE]
ReturnErr(e) == [ret |-> "Err", err |-> e, valid |-> FALSE, from_cache |-> FALSE]
\* Ok(ValidationResult {valid: state.valid, .., from_cache})
ReturnOk(state, from_cache) ==
    [ret |-> "Ok", err |-> Ok, valid |-> state.valid, from_cache |-> from_cache]

Init ==
    /\ config \in {c \in Configs : IsOk(GatewardenConfig_validate(c))}
    /\ now \in NowPoints
    /\ files = [s \in Stems |-> None]
    /\ tmps = [h \in Hashes |-> None]
    /\ pc = "idle"
    /\ op = ""
    /\ license_key = ""
    /\ response = None
    /\ online_error = Ok
    /\ record = None
    /\ result = Pending
    /\ log = <<>>
    /\ saved_at = [s \in Stems |-> None]

key_hash == hash_license_key(license_key)

\* The clock is read, not owned: between any two steps it may show any instant.
Tick ==
    /\ now' \in NowPoints \ {now}
    /\ UNCHANGED << config, files, tmps, pc, op, license_key, response,
                    online_error, record, result, log, saved_at >>


(***************************************************************************)
(* manager.rs: LicenseManager::validate_key                                *)
(***************************************************************************)
Return(r) ==
    /\ result' = r
    /\ pc' = "idle"

\* A key check that lets the empty key through.
is_empty_Never(license_key_arg) == FALSE

\* license_key.is_empty() (lines 103 and 124)
is_empty(license_key_arg) == license_key_arg = ""

\* validate_key, lines 103-110: the empty key returns at once; otherwise
\* the key is hashed and validate_online starts.
validate_key_Enter(k) ==
    /\ pc = "idle"
    /\ op' = "validate_key"
    /\ license_key' = k
    /\ response' = None
    /\ online_error' = Ok
    /\ record' = None
    /\ IF is_empty(k)
       THEN /\ result' = ReturnErr(MissingLicense)
            /\ pc' = "idle"
            /\ log' = << "validate_key" >>
       ELSE /\ result' = Pending
            /\ pc' = "online"
            /\ log' = << "validate_key", "hash_license_key" >>
    /\ UNCHANGED << config, now, files, tmps, saved_at >>

\* Option::unwrap_or_default (lines 178-179); the default String is empty:
\* a Date header with no text, a Keygen-Signature header with no segment.
unwrap_or_default(o, default) == IF IsSome(o) THEN o[1] ELSE default
EmptyDate == [fmt |-> "", secs |-> 0, off |-> 0]

\* A validate_online whose failed checks do not stop it from saving.
FailOnline_SaveAnyway(e) ==
    /\ online_error' = e
    /\ pc' = IF e.kind = "KeygenTransport" THEN "offline" ELSE "save"

\* A failed online attempt that is tried once more after a transport error.
FailOnline_Retry(e) ==
    /\ online_error' = e
    /\ pc' = IF e.kind = "KeygenTransport" /\ Len(log) < 4 THEN "online" ELSE "offline"

\* An Err from validate_online goes to validate_offline (lines 112-115).
FailOnline(e) ==
    /\ online_error' = e
    /\ pc' = "offline"

\* validate_online, lines 170-172: the transport call.  It yields a captured
\* response or a KeygenTransport error (send failed, or the body could not be
\* read).
validate_online_Transport ==
    /\ pc = "online"
    /\ log' = Append(log, "transport")
    /\ \/ \E e \in TransportErrors :
             /\ FailOnline(e)
             /\ response' = None
       \/ \E r \in Responses :
             /\ response' = Some(r)
             /\ pc' = "verify"
             /\ online_error' = Ok
    /\ UNCHANGED << config, now, files, tmps, op, license_key, record,
                    result, saved_at >>

\* validate_online, line 175: verify_response(&response, public_key_hex, clock)
validate_online_Verify ==
    /\ pc = "verify"
    /\ log' = Append(log, "verify_response")
    /\ LET v == verify_response(response[1], config.public_key_hex, now) IN
       IF IsOk(v)
       THEN pc' = "parse" /\ online_error' = Ok
       ELSE FailOnline(v)
    /\ UNCHANGED << config, now, files, tmps, op, license_key, response,
                    record, result, saved_at >>

\* validate_online, lines 185-189: body_str, serde_json::from_str and
\* LicenseState::from_keygen_response.
validate_online_Parse ==
    /\ pc = "parse"
    /\ log' = Append(log, "parse")
    /\ LET b == body_str(response[1])
           j == from_str_KeygenValidateResponse(response[1].body)
       IN IF ~IsOk(b) THEN FailOnline(b)
          ELSE IF ~IsOk(j) THEN FailOnline(j)
          ELSE pc' = "access" /\ online_error' = Ok
    /\ UNCHANGED << config, now, files, tmps, op, license_key, response,
                    record, result, saved_at >>

\* validate_online, lines 192-196: check_access_with_usage(.., 0)
validate_online_Access ==
    /\ pc = "access"
    /\ log' = Append(log, "check_access_with_usage")
    /\ LET a == check_access_with_usage(from_keygen_response(response[1].body),
                                        config.required_entitlements, U64(0, 0))
       IN IF IsOk(a)
          THEN pc' = "save" /\ online_error' = Ok
          ELSE FailOnline(a)
    /\ UNCHANGED << config, now, files, tmps, op, license_key, response,
                    record, result, saved_at >>

\* validate_online, lines 199-207, and FileCache::save, lines 53-60:
\* CacheRecord::new reads the clock, to_json, fs::write of the temp file.
\* A failed write leaves the temp file as it was, or cut short.
validate_online_WriteTemp ==
    /\ pc = "save"
    /\ LET r == response[1]
           cache_record ==
               CacheRecord_new(unwrap_or_default(r.date, EmptyDate),
                               unwrap_or_default(r.signature, <<>>),
                               r.digest, r.body, r.request_path, r.host, now)
           json == to_json(cache_record)
       IN /\ record' = Some(cache_record)
          /\ \/ /\ tmps' = [tmps EXCEPT ![temp_path(key_hash)] = Some(json)]
                /\ log' = Append(log, "write_temp")
                /\ pc' = "rename"
                /\ online_error' = Ok
             \/ /\ tmps' \in { tmps,
                              [tmps EXCEPT ![temp_path(key_hash)] =
                                               Some(SubSeq(json, 1, 2))] }
                /\ log' = Append(log, "write_temp_failed")
                /\ FailOnline(CacheIO("Failed to write temp file"))
    /\ UNCHANGED << config, now, files, op, license_key, response, result,
                    saved_at >>

\* FileCache::save, lines 63-66, and validate_online, lines 210-215:
\* fs::rename(temp, target) replaces the target in one step; then Ok is
\* returned with from_cache = false.
validate_online_Rename ==
    /\ pc = "rename"
    /\ \/ /\ files' = [files EXCEPT ![license_path(key_hash)] =
                                        tmps[temp_path(key_hash)]]
          /\ tmps' = [tmps EXCEPT ![temp_path(key_hash)] = None]
          /\ saved_at' = [saved_at EXCEPT ![license_path(key_hash)] =
                                              Some(record[1].cached_at)]
          /\ log' = Append(log, "rename")
          /\ Return(ReturnOk(from_keygen_response(response[1].body), FALSE))
          /\ online_error' = Ok
       \/ /\ log' = Append(log, "rename_failed")
          /\ FailOnline(CacheIO("Failed to rename cache file"))
          /\ UNCHANGED << files, tmps, saved_at, result >>
    /\ UNCHANGED << config, now, op, license_key, response, record >>


(***************************************************************************)
(* manager.rs: validate_offline and check_access                           *)
(***************************************************************************)
\* matches!(online_error, GatewardenError::KeygenTransport(_))
is_transport_AnyError(e) == ~IsOk(e)

is_transport(e) == e.kind = "KeygenTransport"

\* A gate that falls back on a failed save as on a transport error.
validate_offline_Gate_SaveFailureFallsBack ==
    /\ pc = "offline"
    /\ IF ~is_transport(online_error) /\ online_error.kind # "CacheIO"
       THEN /\ Return(ReturnErr(online_error))
            /\ log' = Append(log, "return_online_error")
       ELSE /\ pc' = "load"
            /\ log' = Append(log, "fallback")
            /\ UNCHANGED result
    /\ UNCHANGED << config, now, files, tmps, op, license_key, response,
                    online_error, record, saved_at >>

\* validate_offline, lines 225-227: only a transport error falls back.
validate_offline_Gate ==
    /\ pc = "offline"
    /\ IF ~is_transport(online_error)
       THEN /\ Return(ReturnErr(online_error))
            /\ log' = Append(log, "return_online_error")
       ELSE /\ pc' = "load"
            /\ log' = Append(log, "fallback")
            /\ UNCHANGED result
    /\ UNCHANGED << config, now, files, tmps, op, license_key, response,
                    online_error, record, saved_at >>

\* check_access, lines 124-134: the empty key returns at once; otherwise the
\* cache is read without any call to the service.
check_access_Enter(k) ==
    /\ pc = "idle"
    /\ op' = "check_access"
    /\ license_key' = k
    /\ response' = None
    /\ online_error' = Ok
    /\ record' = None
    /\ IF is_empty(k)
       THEN /\ result' = ReturnErr(MissingLicense)
            /\ pc' = "idle"
            /\ log' = << "check_access" >>
       ELSE /\ result' = Pending
            /\ pc' = "load"
            /\ log' = << "check_access", "hash_license_key" >>
    /\ UNCHANGED << config, now, files, tmps, saved_at >>

\* What `.ok_or(..)?` returns when load found no file: validate_offline,
\* line 230, gives back online_error; check_access, line 134, InvalidLicense.
no_record_error_Invalid == InvalidLicense

\* An `.ok_or(..)?` that gives back online_error in check_access as well.
no_record_error_Online == online_error

no_record_error == IF op = "validate_key" THEN online_error ELSE InvalidLicense

\* FileCache::load, lines 70-82, with the `?.ok_or(..)?` of its caller.
cache_Load ==
    /\ pc = "load"
    /\ LET path == license_path(key_hash) IN
       \/ /\ IsNone(files[path])
          /\ log' = Append(log, "load_none")
          /\ Return(ReturnErr(no_record_error))
          /\ UNCHANGED record
       \/ /\ IsSome(files[path])
          /\ log' = Append(log, "read_failed")
          /\ Return(ReturnErr(CacheIO("Failed to read cache file")))
          /\ UNCHANGED record
       \/ /\ IsSome(files[path])
          /\ LET loaded == from_json(files[path][1]) IN
             IF IsOk(loaded.res)
             THEN /\ record' = loaded.record
                  /\ log' = Append(log, "load")
                  /\ pc' = "cache_verify"
                  /\ UNCHANGED result
             ELSE /\ log' = Append(log, "deserialize_failed")
                  /\ Return(ReturnErr(loaded.res))
                  /\ UNCHANGED record
    /\ UNCHANGED << config, now, files, tmps, op, license_key, response,
                    online_error, saved_at >>

\* A verify step that removes the cache file of a record that failed.
cache_Verify_Evict ==
    /\ pc = "cache_verify"
    /\ log' = Append(log, "record_verify")
    /\ LET v == CacheRecord_verify(record[1], config.public_key_hex,
                                   config.offline_grace, now)
       IN IF IsOk(v)
          THEN pc' = "cache_parse" /\ UNCHANGED << result, files, saved_at >>
          ELSE /\ Return(ReturnErr(v))
               /\ files' = [files EXCEPT ![license_path(key_hash)] = None]
               /\ saved_at' = [saved_at EXCEPT ![license_path(key_hash)] = None]
    /\ UNCHANGED << config, now, tmps, op, license_key, response,
                    online_error, record >>

\* record.verify(public_key_hex, offline_grace, clock)?  (lines 233-237 and
\* 137-141)
cache_Verify ==
    /\ pc = "cache_verify"
    /\ log' = Append(log, "record_verify")
    /\ LET v == CacheRecord_verify(record[1], config.public_key_hex,
                                   config.offline_grace, now)
       IN IF IsOk(v)
          THEN pc' = "cache_parse" /\ UNCHANGED result
          ELSE Return(ReturnErr(v))
    /\ UNCHANGED << config, now, files, tmps, op, license_key, response,
                    online_error, record, saved_at >>

\* Lines 240-253 and 144-159: parse record.body(), check the access policy
\* with no new usage, return Ok with from_cache = true.
cache_Access ==
    /\ pc = "cache_parse"
    /\ log' = Append(log, "cache_access")
    /\ LET body == record[1].body
           j == from_str_KeygenValidateResponse(body)
           a == check_access_with_usage(from_keygen_response(body),
                                        config.required_entitlements, U64(0, 0))
       IN IF ~IsOk(j) THEN Return(ReturnErr(ProtocolError("Cache parse error")))
          ELSE IF ~IsOk(a) THEN Return(ReturnErr(a))
          ELSE Return(ReturnOk(from_keygen_response(body), TRUE))
    /\ UNCHANGED << config, now, files, tmps, op, license_key, response,
                    online_error, record, saved_at >>

\* FileCache::delete, lines 85-94
cache_Delete(k) ==
    /\ pc = "idle"
    /\ IsSome(files[license_path(hash_license_key(k))])
    /\ files' = [files EXCEPT ![license_path(hash_license_key(k))] = None]
    /\ saved_at' = [saved_at EXCEPT ![license_path(hash_license_key(k))] = None]
    /\ UNCHANGED << config, now, tmps, pc, op, license_key, response,
                    online_error, record, result, log >>

\* FileCache::clear, lines 97-110: every .json file goes, .tmp files stay.
cache_Clear ==
    /\ pc = "idle"
    /\ \E s \in Stems : IsSome(files[s])
    /\ files' = [s \in Stems |-> None]
    /\ saved_at' = [s \in Stems |-> None]
    /\ UNCHANGED << config, now, tmps, pc, op, license_key, response,
                    online_error, record, result, log >>

Next ==
    \/ Tick
    \/ \E k \in Keys : validate_key_Enter(k)
    \/ validate_online_Transport
    \/ validate_online_Verify
    \/ validate_online_Parse
    \/ validate_online_Access
    \/ validate_online_WriteTemp
    \/ validate_online_Rename
    \/ validate_offline_Gate
    \/ \E k \in Keys : check_access_Enter(k)
    \/ cache_Load
    \/ cache_Verify
    \/ cache_Access
    \/ \E k \in Keys \ {""} : cache_Delete(k)
    \/ cache_Clear

Spec == Init /\ [][Next]_vars

(***************************************************************************)
(* The verification pipeline on its own: verify_response and               *)
(* verify_response_signature_only applied to every response of             *)
(* AllResponses, under every key and clock reading.  `response` is the     *)
(* argument, `op` the function applied and `online_error` what it returned.*)
(***************************************************************************)
InitPipeline ==
    /\ config \in Configs
    /\ now \in NowPoints
    /\ response \in {Some(r) : r \in AllResponses}
    /\ pc = "received"
    /\ op = ""
    /\ license_key = ""
    /\ files = [s \in Stems |-> None]
    /\ tmps = [h \in Hashes |-> None]
    /\ online_error = Ok
    /\ record = None
    /\ result = Pending
    /\ log = <<>>
    /\ saved_at = [s \in Stems |-> None]

pipeline_verify_response ==
    /\ pc = "received"
    /\ op' = "verify_response"
    /\ online_error' = verify_response(response[1], config.public_key_hex, now)
    /\ pc' = "verified"
    /\ UNCHANGED << config, now, files, tmps, license_key, response, record,
                    result, log, saved_at >>

pipeline_verify_response_signature_only ==
    /\ pc = "received"
    /\ op' = "verify_response_signature_only"
    /\ online_error' =
           verify_response_signature_only(response[1], config.public_key_hex)
    /\ pc' = "verified"
    /\ UNCHANGED << config, now, files, tmps, license_key, response, record,
                    result, log, saved_at >>

\* CacheRecord::verify on the record CacheRecord::new makes of the response
\* at this clock reading (a record has a date, a signature and a body that
\* is a string).
pipeline_record_verify ==
    /\ pc = "received"
    /\ IsSome(response[1].date)
    /\ IsSome(response[1].signature)
    /\ response[1].body.utf8
    /\ op' = "CacheRecord_verify"
    /\ LET r == response[1]
           rec == CacheRecord_new(r.date[1], r.signature[1], r.digest, r.body,
                                  r.request_path, r.host, now)
       IN /\ record' = Some(rec)
          /\ online_error' = CacheRecord_verify(rec, config.public_key_hex,
                                                config.offline_grace, now)
    /\ pc' = "verified"
    /\ UNCHANGED << config, now, files, tmps, license_key, response,
                    result, log, saved_at >>

NextPipeline ==
    \/ pipeline_verify_response
    \/ pipeline_verify_response_signature_only
    \/ pipeline_record_verify

SpecPipeline == InitPipeline /\ [][NextPipeline]_vars

\* C2: whenever the Date header or the Keygen-Signature header of the
\* response is absent, verify_response and verify_response_signature_only
\* both return SignatureMissing, whatever the digest header, the body, the
\* configured key and the clock are.
C2_FailClosed ==
    (pc = "verified"
       /\ (IsNone(response[1].date) \/ IsNone(response[1].signature)))
    => online_error = SignatureMissing

\* verify_response_signature_only has run on a response that has a signature
\* but no date, whose digest does not match its body, under a key that does
\* not decode.
C2_Witness ==
    /\ pc = "verified"
    /\ op = "verify_response_signature_only"
    /\ IsNone(response[1].date)
    /\ IsSome(response[1].signature)
    /\ IsSome(response[1].digest)
    /\ ~IsOk(verify_digest(response[1].body, response[1].digest))
    /\ ~IsOk(decode_public_key(config.public_key_hex).res)
    /\ online_error = SignatureMissing

(***************************************************************************)
(* The freshness check on its own: check_date_freshness(date, clock) for   *)
(* a Date header of second DateSecs and every clock reading from           *)
(* FreshnessSlack seconds before the future tolerance to FreshnessSlack    *)
(* seconds past the maximum age, in steps of one tick.                     *)
(***************************************************************************)
FreshnessSlack == 2

FreshnessNows ==
    ((DateSecs - MAX_FUTURE_TOLERANCE_SECONDS - FreshnessSlack) * TicksPerSec)
    .. ((DateSecs + MAX_RESPONSE_AGE_SECONDS + FreshnessSlack) * TicksPerSec)

\* Date headers of the same second: in UTC, and in a zone one hour east.
FreshnessDates == { DateHeader(DateSecs, 0), DateHeader(DateSecs + 3600, 3600) }

InitFreshness ==
    /\ config = test_config(TEST_PUBLIC_KEY_HEX, from_secs(GraceSecs))
    /\ now \in FreshnessNows
    /\ response \in { Some(KeygenResponse(200, Some(d), None, None, BodyOk,
                                          request_path_of(ACCOUNT), HOST)) :
                        d \in FreshnessDates }
    /\ pc = "received"
    /\ op = ""
    /\ license_key = ""
    /\ files = [s \in Stems |-> None]
    /\ tmps = [h \in Hashes |-> None]
    /\ online_error = Ok
    /\ record = None
    /\ result = Pending
    /\ log = <<>>
    /\ saved_at = [s \in Stems |-> None]

freshness_check ==
    /\ pc = "received"
    /\ op' = "check_date_freshness"
    /\ online_error' = check_date_freshness(response[1].date[1], now)
    /\ pc' = "checked"
    /\ UNCHANGED << config, now, files, tmps, license_key, response, record,
                    result, log, saved_at >>

NextFreshness == freshness_check

SpecFreshness == InitFreshness /\ [][NextFreshness]_vars

\* now - response_date in whole seconds, counted from the ticks directly:
\* the part of a second is dropped, towards zero.
WholeSeconds(ticks) ==
    IF ticks >= 0 THEN ticks \div TicksPerSec ELSE -((-ticks) \div TicksPerSec)

FreshnessAge == WholeSeconds(now - DateSecs * TicksPerSec)

RecordSkew == 5

RecordNows ==
    (DateSecs * TicksPerSec - RecordSkew) .. (DateSecs * TicksPerSec + RecordSkew)

\* Duration::from_secs(1 << 62): the largest graces whose seconds fit an i64.
LargeGrace == Duration(U64(1, 0), 0)

\* Graces of 0 s, 1 s, 1 s and a fraction, 2^62 s and 2^63 s.
RecordGraces ==
    { from_secs(0), from_secs(1), Duration(U64(0, 1), 1), LargeGrace, HugeGrace }

RecordBodies == {BodyOk, BodyInvalid}

InitRecord ==
    /\ config \in { test_config(TEST_PUBLIC_KEY_HEX, g) : g \in RecordGraces }
    /\ now \in RecordNows
    /\ response \in
         { Some(r) : r \in { x \in AllResponses :
                               /\ x.body \in RecordBodies
                               /\ IsOk(verify_response(x, config.public_key_hex, now)) } }
    /\ pc = "accepted"
    /\ op = ""
    /\ license_key = "k1"
    /\ files = [s \in Stems |-> None]
    /\ tmps = [h \in Hashes |-> None]
    /\ online_error = Ok
    /\ record = None
    /\ result = Pending
    /\ log = <<>>
    /\ saved_at = [s \in Stems |-> None]

\* CacheRecord::new on the accepted response's fields, as validate_online
\* calls it (manager.rs, lines 178-207).
record_New ==
    /\ pc = "accepted"
    /\ LET r == response[1] IN
       record' = Some(CacheRecord_new(unwrap_or_default(r.date, EmptyDate),
                                      unwrap_or_default(r.signature, <<>>),
                                      r.digest, r.body, r.request_path,
                                      r.host, now))
    /\ saved_at' = [saved_at EXCEPT ![license_path(key_hash)] = Some(now)]
    /\ pc' = "built"
    /\ UNCHANGED << config, now, files, tmps, op, license_key, response,
                    online_error, result, log >>

\* FileCache::save: to_json, write the temp file, rename it to the target.
record_Save ==
    /\ pc = "built"
    /\ log = <<>>
    /\ files' = [files EXCEPT ![license_path(key_hash)] = Some(to_json(record[1]))]
    /\ pc' = "saved"
    /\ UNCHANGED << config, now, tmps, op, license_key, response,
                    online_error, record, result, log, saved_at >>

\* FileCache::load: read the file and from_json.
record_Load ==
    /\ pc = "saved"
    /\ record' = from_json(files[license_path(key_hash)][1]).record
    /\ pc' = "loaded"
    /\ UNCHANGED << config, now, files, tmps, op, license_key, response,
                    online_error, result, log, saved_at >>

record_Tick ==
    /\ pc \in {"built", "loaded"}
    /\ now' \in RecordNows \ {now}
    /\ UNCHANGED << config, files, tmps, pc, op, license_key, response,
                    online_error, record, result, log, saved_at >>

\* Other values for the fields of a stored record.
OtherBodies(rec) == {BodyOk, BodyInvalid, BodyOverCap} \ {rec.body}

OtherDates(rec) ==
    { DateHeader(DateSecs + 1, 0), DateHeader(DateSecs + 3600, 3600), NotADate }
    \ {rec.date}

OtherDigests(rec) ==
    { None,
      Some(format_digest_header(CHOOSE b \in OtherBodies(rec) : TRUE)),
      Some(DigestHeader(FALSE, "SHA-256=", sha256_b64(rec.body))),
      Some(DigestHeader(TRUE, "sha-256=", sha256_b64(rec.body))),
      Some(DigestHeader(FALSE, "md5=", sha256_b64(rec.body))) }
    \ {rec.digest}

\* The base64 text of the record's own signature parameter.
OwnSignature(rec) == parse_signature_header(rec.signature).signature.pay

OtherSignatures(rec) ==
    { \* other signature values under the same parameters
      << Ed25519Param, SigParam(SigBytes(TRUE, 64, "", OwnSignature(rec).msg)) >>,
      << Ed25519Param, SigParam(SigBytes(TRUE, 64, "keygen", <<>>)) >>,
      << Ed25519Param, SigParam(SigBytes(TRUE, 4, "", <<>>)) >>,
      << Ed25519Param, SigParam(SigBytes(FALSE, 0, "", <<>>)) >>,
      \* the same signature value in a header that reads differently
      << Param("keyid", "test-account"), Ed25519Param, SigParam(OwnSignature(rec)) >>,
      << Segment(TRUE, "Algorithm", "none", "ed25519", NoBytes),
         SigParam(OwnSignature(rec)) >>,
      \* headers that do not parse
      << Param("algorithm", "rsa-sha256"), SigParam(OwnSignature(rec)) >>,
      << Ed25519Param >>,
      << SigParam(OwnSignature(rec)) >>,
      <<>> }
    \ {rec.signature}

\* Somebody with access to the cache directory changes one field of the record.
record_Change ==
    /\ pc \in {"built", "loaded"}
    /\ log = <<>>
    /\ \/ \E v \in OtherBodies(record[1]) :
             /\ record' = Some([record[1] EXCEPT !.body = v])
             /\ log' = << "body" >>
       \/ \E v \in OtherDates(record[1]) :
             /\ record' = Some([record[1] EXCEPT !.date = v])
             /\ log' = << "date" >>
       \/ \E v \in OtherSignatures(record[1]) :
             /\ record' = Some([record[1] EXCEPT !.signature = v])
             /\ log' = << "signature" >>
       \/ /\ IsSome(record[1].digest)
          /\ \E v \in OtherDigests(record[1]) :
                /\ record' = Some([record[1] EXCEPT !.digest = v])
                /\ log' = << "digest" >>
    /\ UNCHANGED << config, now, files, tmps, pc, op, license_key, response,
                    online_error, result, saved_at >>

\* record.verify(public_key_hex, offline_grace, clock)
record_Verify ==
    /\ pc \in {"built", "loaded"}
    /\ op' = pc
    /\ online_error' = CacheRecord_verify(record[1], config.public_key_hex,
                                          config.offline_grace, now)
    /\ pc' = "verified"
    /\ UNCHANGED << config, now, files, tmps, license_key, response, record,
                    result, log, saved_at >>

\* record.verify(..) on the record with another instant of RecordNows in
\* place of its cached_at and every other field as it was.
record_Recache ==
    /\ pc \in {"built", "loaded"}
    /\ log = <<>>
    /\ \E t \in RecordNows \ {record[1].cached_at} :
          LET rec == [record[1] EXCEPT !.cached_at = t]
          IN /\ record' = Some(rec)
             /\ online_error' = CacheRecord_verify(rec, config.public_key_hex,
                                                   config.offline_grace, now)
    /\ op' = pc
    /\ pc' = "recached"
    /\ UNCHANGED << config, now, files, tmps, license_key, response,
                    result, log, saved_at >>

NextRecord ==
    \/ record_New
    \/ record_Save
    \/ record_Load
    \/ record_Tick
    \/ record_Change
    \/ record_Verify
    \/ record_Recache

SpecRecord == InitRecord /\ [][NextRecord]_vars

\* The clock reading CacheRecord::new stored in the record of the key.
CachedAt == saved_at[license_path(key_hash)][1]

\* now - cached_at, in ticks.
AgeTicks == now - CachedAt

\* Whether an age in ticks is at most, or exactly, the configured grace (a
\* Duration of secs seconds and nanos ticks); ages of the model are far
\* below 2^62 s.
AgeWithin(age, grace) ==
    grace.secs[1] > 0 \/ age <= grace.secs[2] * TicksPerSec + grace.nanos
AgeIs(age, grace) ==
    grace.secs[1] = 0 /\ age = grace.secs[2] * TicksPerSec + grace.nanos

\* C7: the record built from an accepted response verifies under the same
\* key at the clock instant of its construction, for every offline grace,
\* with or without a Digest header, both as built and after it was written
\* to its file as JSON and read back.
C7_RoundTrip ==
    (pc = "verified" /\ log = <<>> /\ now = CachedAt) => IsOk(online_error)

\* The record as CacheRecord::new built it from the accepted response.
BuiltRecord ==
    CacheRecord_new(response[1].date[1], response[1].signature[1],
                    response[1].digest, response[1].body,
                    response[1].request_path, response[1].host, CachedAt)

BuiltRecordVerifies ==
    IsOk(CacheRecord_verify(BuiltRecord, config.public_key_hex,
                            config.offline_grace, now))

C9_GraceBoundaries ==
    (pc = "verified" /\ log = <<>>) =>
        /\ AgeIs(AgeTicks, config.offline_grace) => IsOk(online_error)
        /\ ~AgeWithin(AgeTicks - TicksPerSec, config.offline_grace)
               => online_error = CacheExpired
        /\ AgeTicks < 0 => online_error = CacheTampered

(***************************************************************************)
(* Properties of the LicenseManager (specification Spec)                   *)
(***************************************************************************)
Last(seq) == seq[Len(seq)]

\* The steps by which a call read, or went on to read, the cache.
CacheReadSteps ==
    { "fallback", "load", "load_none", "read_failed", "deserialize_failed",
      "record_verify", "cache_access" }

\* The record in the cache file of the key, when there is one that parses.
StoredRecord(k) == from_json(files[license_path(hash_license_key(k))][1]).record[1]

\* C1: when the online attempt of validate_key has failed with an error
\* other than KeygenTransport, the call goes on to no cache read and returns
\* exactly that error, never a success from cache, also when a record of
\* the key that verifies within grace is in the cache.
C1_TransportOnlyFallback ==
    (op = "validate_key" /\ ~IsOk(online_error)
       /\ online_error.kind # "KeygenTransport")
    => /\ pc \in {"offline", "idle"}
       /\ pc = "idle" => result = ReturnErr(online_error)
       /\ \A i \in 1..Len(log) : log[i] \notin CacheReadSteps

\* validate_key has returned SignatureInvalid while the cache holds a record
\* of the key that verifies within grace at the current clock reading.
C1_Witness ==
    /\ pc = "idle"
    /\ op = "validate_key"
    /\ online_error = SignatureInvalid
    /\ result = ReturnErr(SignatureInvalid)
    /\ IsSome(files[license_path(key_hash)])
    /\ IsOk(CacheRecord_verify(StoredRecord(license_key), config.public_key_hex,
                               config.offline_grace, now))

\* The steps of validate_key up to the cache write, in order.
OnlineSteps ==
    << "validate_key", "hash_license_key", "transport", "verify_response",
       "parse", "check_access_with_usage" >>

\* A step that writes a temp file or puts content into a cache file.
CacheWritten ==
    \/ tmps' # tmps
    \/ \E s \in Stems : files'[s] # files[s] /\ IsSome(files'[s])

\* The response in hand passed every check of validate_online.
ResponseAccepted ==
    /\ IsSome(response)
    /\ \E t \in NowPoints :
          IsOk(verify_response(response[1], config.public_key_hex, t))
    /\ IsOk(body_str(response[1]))
    /\ IsOk(from_str_KeygenValidateResponse(response[1].body))
    /\ IsOk(check_access_with_usage(from_keygen_response(response[1].body),
                                    config.required_entitlements, U64(0, 0)))

\* A stored record has the content the checks of validate_online accept.
RecordAccepted(k) ==
    LET rec == StoredRecord(k)
        r == KeygenResponse(200, Some(rec.date), Some(rec.signature),
                            rec.digest, rec.body, rec.request_path, rec.host)
    IN /\ IsOk(from_json(files[license_path(hash_license_key(k))][1]).res)
       /\ IsOk(verify_response_signature_only(r, config.public_key_hex))
       /\ IsOk(from_str_KeygenValidateResponse(rec.body))
       /\ IsOk(check_access_with_usage(from_keygen_response(rec.body),
                                       config.required_entitlements, U64(0, 0)))

\* C3: within one validate_key call the cache is written only after the
\* transport call succeeded, verify_response passed, the body was decoded
\* and check_access_with_usage(.., 0) passed, in this order and in the same
\* call; so every record in the cache was accepted by all of these steps,
\* and a call that failed at an earlier step writes nothing.
C3_WriteAfterChecks ==
    /\ [][CacheWritten =>
            /\ op = "validate_key"
            /\ pc \in {"save", "rename"}
            /\ Len(log) >= Len(OnlineSteps)
            /\ SubSeq(log, 1, Len(OnlineSteps)) = OnlineSteps
            /\ IsOk(online_error)
            /\ ResponseAccepted]_vars
    /\ [](\A k \in Keys \ {""} :
             IsSome(files[license_path(hash_license_key(k))]) => RecordAccepted(k))

\* validate_key has gone through all its steps and stored the record.
C3_Witness ==
    /\ pc = "idle"
    /\ op = "validate_key"
    /\ log = OnlineSteps \o << "write_temp", "rename" >>
    /\ result = ReturnOk([valid |-> TRUE], FALSE)
    /\ IsSome(files[license_path(key_hash)])

\* The verify step of validate_offline, and its step of parsing the cached
\* body and checking access.
OfflineVerifyStep == pc = "cache_verify" /\ pc' # pc /\ op = "validate_key"
OfflineAccessStep == pc = "cache_parse" /\ pc' # pc /\ op = "validate_key"

\* C4: after validate_key(k) succeeded online at clock reading t, and with
\* no delete or clear since, a validate_key(k) whose transport call fails
\* with a transport error and which verifies the record at a clock reading
\* t' with 0 <= t' - t <= offline_grace returns Ok with valid = true and
\* from_cache = true.
C4_FallbackWithinGrace ==
    /\ [][(/\ OfflineVerifyStep
           /\ IsSome(saved_at[license_path(key_hash)])
           /\ AgeTicks >= 0
           /\ AgeWithin(AgeTicks, config.offline_grace))
          => pc' = "cache_parse"]_vars
    /\ [][OfflineAccessStep => result' = ReturnOk([valid |-> TRUE], TRUE)]_vars

C6_NoRecordReturnsTransportError ==
    (pc = "idle" /\ op = "validate_key" /\ Len(log) > 0 /\ Last(log) = "load_none")
    => /\ result.ret = "Err"
       /\ result.err \in TransportErrors
       /\ result.err = online_error

\* validate_key has returned the transport error "Failed to read body"
\* after finding no cache file.
C6_Witness ==
    /\ pc = "idle"
    /\ op = "validate_key"
    /\ Last(log) = "load_none"
    /\ IsNone(files[license_path(key_hash)])
    /\ result = ReturnErr(KeygenTransport("Failed to read body"))

\* The step of check_access that verifies the loaded record, and its step of
\* decoding the cached body and checking access.
CachedVerifyStep == pc = "cache_verify" /\ pc' # pc /\ op = "check_access"
CachedAccessStep == pc = "cache_parse" /\ pc' # pc /\ op = "check_access"

\* What check_access returns for a record that verified: the outcome of
\* decoding its body and of check_access_with_usage(.., 0).
CachedOutcome(rec) ==
    LET j == from_str_KeygenValidateResponse(rec.body)
        a == check_access_with_usage(from_keygen_response(rec.body),
                                     config.required_entitlements, U64(0, 0))
    IN IF ~IsOk(j) THEN ReturnErr(ProtocolError("Cache parse error"))
       ELSE IF ~IsOk(a) THEN ReturnErr(a)
       ELSE ReturnOk(from_keygen_response(rec.body), TRUE)

\* C11: check_access is cache-only.  It never calls the transport and
\* writes neither a temp file nor a cache file; when no cache file of the
\* key exists it returns InvalidLicense; when a record was loaded the call
\* returns the error of CacheRecord.verify, or else the outcome of decoding
\* the body and of check_access_with_usage(.., 0); a success carries
\* from_cache = true.
C11_CheckAccessCacheOnly ==
    /\ [](op = "check_access" =>
            /\ \A i \in 1..Len(log) : log[i] \notin {"transport", "verify_response"}
            /\ pc \in {"idle", "load", "cache_verify", "cache_parse"}
            /\ IsNone(response)
            /\ (pc = "idle" /\ Last(log) = "load_none")
                  => result = ReturnErr(InvalidLicense)
            /\ (pc = "idle" /\ result.ret = "Ok") => result.from_cache)
    /\ [][(op = "check_access" /\ pc # "idle")
            => UNCHANGED << files, tmps, saved_at >>]_vars
    /\ [][CachedVerifyStep =>
            LET v == CacheRecord_verify(record[1], config.public_key_hex,
                                        config.offline_grace, now)
            IN IF IsOk(v) THEN pc' = "cache_parse"
               ELSE pc' = "idle" /\ result' = ReturnErr(v)]_vars
    /\ [][CachedAccessStep =>
            pc' = "idle" /\ result' = CachedOutcome(record[1])]_vars

\* check_access has returned Ok from the cache record of the key.
C11_Witness ==
    /\ pc = "idle"
    /\ op = "check_access"
    /\ log = << "check_access", "hash_license_key", "load", "record_verify",
                "cache_access" >>
    /\ result = ReturnOk([valid |-> TRUE], TRUE)

\* check_access has found no cache file of the key.
C11_WitnessNoRecord ==
    /\ pc = "idle"
    /\ op = "check_access"
    /\ Last(log) = "load_none"
    /\ result = ReturnErr(InvalidLicense)

\* C12: validate_key and check_access called with an empty license key
\* return MissingLicense before any other step: the call takes no step but
\* its entry, so it makes no transport call and reads no cache file, and it
\* leaves every cache file and temp file as it was.
C12_EmptyKeyMissingLicense ==
    /\ []((op # "" /\ license_key = "") =>
            /\ pc = "idle"
            /\ result = ReturnErr(MissingLicense)
            /\ log = << op >>
            /\ IsNone(response)
            /\ IsNone(record))
    /\ [][(license_key' = "" /\ << op, result, log >>' # << op, result, log >>)
            => UNCHANGED << files, tmps, saved_at >>]_vars

\* validate_key("") has returned MissingLicense while the cache holds a
\* record of another key.
C12_Witness ==
    /\ pc = "idle"
    /\ op = "validate_key"
    /\ license_key = ""
    /\ result = ReturnErr(MissingLicense)
    /\ \E s \in Stems : IsSome(files[s])

\* check_access("") has returned MissingLicense while the cache holds a
\* record of another key.
C12_WitnessCheckAccess ==
    /\ pc = "idle"
    /\ op = "check_access"
    /\ license_key = ""
    /\ result = ReturnErr(MissingLicense)
    /\ \E s \in Stems : IsSome(files[s])

(***************************************************************************)
(* cache/file.rs: FileCache::save and FileCache::load, step by step.       *)
(* save is the last step of validate_online; each caller p runs it with    *)
(* no lock (the library takes none), for the one key "k1".  In these two   *)
(* specifications pc, record, result and log are functions of the caller:  *)
(*   pc[p]     [step, fd, off]: where p is in save, the file its open      *)
(*             descriptor refers to ("tmp": the file at the temp path,     *)
(*             "target": the file at the cache path, "gone": a file with   *)
(*             no name left, "none": no descriptor), and its write offset  *)
(*   record[p] Option: the CacheRecord p saves                             *)
(*   result[p] what p's validate_key returned                              *)
(*   log[p]    Option: the content of the cache file when p called save    *)
(* and online_error holds what the last FileCache::load returned.  The     *)
(* cache file of the key is absent at first, or holds a record saved by an *)
(* earlier call.  No I/O call fails for reasons outside the callers: every *)
(* error comes from what they do to each other's files.                    *)
(***************************************************************************)
\* write_all hands the text to the file in pieces of this many members.
ChunkLen == 2

\* What a stretch of a file never written reads as.
Hole == << "", "" >>

Max(a, b) == IF a >= b THEN a ELSE b
Min(a, b) == IF a <= b THEN a ELSE b

\* write(2) at an offset: the bytes of chunk replace what is there, and the
\* file grows as needed.
WriteAt(content, off, chunk) ==
    [i \in 1..Max(Len(content), off + Len(chunk)) |->
        IF off < i /\ i <= off + Len(chunk) THEN chunk[i - off]
        ELSE IF i <= Len(content) THEN content[i]
        ELSE Hole]

\* FileCache::load without a read failure: Result<Option<CacheRecord>>.
FileCache_load(license_key_hash) ==
    LET path == license_path(license_key_hash) IN
    IF IsNone(files[path]) THEN [res |-> Ok, record |-> None]
    ELSE from_json(files[path][1])

\* A save that writes the text straight to the cache file.
save_open_path_Target == "target"

\* The path fs::write opens (lines 54 and 59): the temp path.
save_open_path == "tmp"

SaveKey == "k1"
SaveHash == hash_license_key(SaveKey)
SaveNows == { DateSecs * TicksPerSec, (DateSecs + GraceSecs) * TicksPerSec }
\* The responses validate_online accepts, hence saves.
SaveResponses == { r \in Responses : r.body = BodyOk /\ GoodHeaders(r) }
SaveRecords ==
    { CacheRecord_new(r[1].date[1], r[1].signature[1], r[1].digest, r[1].body,
                      r[1].request_path, r[1].host, r[2])
        : r \in SaveResponses \X SaveNows }

Idle == [step |-> "idle", fd |-> "none", off |-> 0]

InitSaveOf(callers) ==
    /\ config = test_config(TEST_PUBLIC_KEY_HEX, from_secs(GraceSecs))
    /\ now \in SaveNows
    /\ files \in [Stems -> {None} \cup {Some(to_json(r)) : r \in SaveRecords}]
    /\ tmps = [h \in Hashes |-> None]
    /\ pc = [p \in callers |-> Idle]
    /\ op = "validate_key"
    /\ license_key = SaveKey
    /\ response = None
    /\ online_error = FileCache_load(SaveHash)
    /\ record = [p \in callers |-> None]
    /\ result = [p \in callers |-> Pending]
    /\ log = [p \in callers |-> None]
    /\ saved_at = [s \in Stems |-> None]

save_Tick ==
    /\ now' \in SaveNows \ {now}
    /\ UNCHANGED << config, files, tmps, pc, op, license_key, response,
                    online_error, record, result, log, saved_at >>

\* validate_online, lines 199-208: CacheRecord::new reads the clock, and
\* cache.save(&key_hash, &cache_record) is called.  A caller whose process
\* has died may call again, as the process started anew.
save_Begin(p) ==
    /\ pc[p].step \in {"idle", "crashed"}
    /\ \E r \in SaveResponses :
          record' = [record EXCEPT ![p] =
                        Some(CacheRecord_new(r.date[1], r.signature[1], r.digest,
                                             r.body, r.request_path, r.host, now))]
    /\ pc' = [pc EXCEPT ![p] = [step |-> "create", fd |-> "none", off |-> 0]]
    /\ result' = [result EXCEPT ![p] = Pending]
    /\ log' = [log EXCEPT ![p] = files[license_path(SaveHash)]]
    /\ UNCHANGED << config, now, files, tmps, op, license_key, response,
                    online_error, saved_at >>

\* fs::write, first half (line 59): File::create opens the path, making the
\* file or cutting an existing one to length 0.
save_Create(p) ==
    /\ pc[p].step = "create"
    /\ pc' = [pc EXCEPT ![p] = [step |-> "write", fd |-> save_open_path, off |-> 0]]
    /\ IF save_open_path = "tmp"
       THEN /\ tmps' = [tmps EXCEPT ![temp_path(SaveHash)] = Some(<<>>)]
            /\ UNCHANGED files
       ELSE /\ files' = [files EXCEPT ![license_path(SaveHash)] = Some(<<>>)]
            /\ UNCHANGED tmps
    /\ UNCHANGED << config, now, op, license_key, response, online_error,
                    record, result, log, saved_at >>

\* fs::write, second half: write_all writes the text piece by piece through
\* the descriptor, wherever the file it refers to is by now; after the last
\* piece the descriptor is closed.
save_Write(p) ==
    /\ pc[p].step = "write"
    /\ LET json == to_json(record[p][1])
           off == pc[p].off
           chunk == SubSeq(json, off + 1, Min(off + ChunkLen, Len(json)))
           end == off + Len(chunk)
       IN /\ pc' = [pc EXCEPT ![p] =
                       IF end = Len(json)
                       THEN [step |-> "rename", fd |-> "none", off |-> 0]
                       ELSE [step |-> "write", fd |-> pc[p].fd, off |-> end]]
          /\ tmps' = IF pc[p].fd = "tmp"
                     THEN [tmps EXCEPT ![temp_path(SaveHash)] =
                              Some(WriteAt(tmps[temp_path(SaveHash)][1], off, chunk))]
                     ELSE tmps
          /\ files' = IF pc[p].fd = "target"
                      THEN [files EXCEPT ![license_path(SaveHash)] =
                               Some(WriteAt(files[license_path(SaveHash)][1], off, chunk))]
                      ELSE files
    /\ UNCHANGED << config, now, op, license_key, response, online_error,
                    record, result, log, saved_at >>

\* fs::rename(&temp_path, &target_path) (lines 63-64) and the return of
\* save and of validate_key.  With a file at the temp path, that file takes
\* the place of the cache file in one step: descriptors open on it now refer
\* to the cache file, and the file that was the cache file has no name left.
\* With no file at the temp path the rename fails, and the CacheIO error,
\* which is no transport error, is what validate_key returns.
save_Rename(p) ==
    /\ pc[p].step = "rename"
    /\ IF IsSome(tmps[temp_path(SaveHash)])
       THEN /\ files' = [files EXCEPT ![license_path(SaveHash)] =
                                          tmps[temp_path(SaveHash)]]
            /\ tmps' = [tmps EXCEPT ![temp_path(SaveHash)] = None]
            /\ pc' = [q \in DOMAIN pc |->
                        IF q = p THEN [step |-> "returned", fd |-> "none", off |-> 0]
                        ELSE IF pc[q].fd = "tmp" THEN [pc[q] EXCEPT !.fd = "target"]
                        ELSE IF pc[q].fd = "target" THEN [pc[q] EXCEPT !.fd = "gone"]
                        ELSE pc[q]]
            /\ result' = [result EXCEPT ![p] = ReturnOk([valid |-> TRUE], FALSE)]
       ELSE /\ pc' = [pc EXCEPT ![p] = [step |-> "returned", fd |-> "none", off |-> 0]]
            /\ result' = [result EXCEPT ![p] =
                             ReturnErr(CacheIO("Failed to rename cache file"))]
            /\ UNCHANGED << files, tmps >>
    /\ UNCHANGED << config, now, op, license_key, response, online_error,
                    record, log, saved_at >>

\* The process of caller p dies in the middle of save: its descriptor is
\* closed, the files stay as they are.
save_Crash(p) ==
    /\ pc[p].step \in {"create", "write", "rename"}
    /\ pc' = [pc EXCEPT ![p] = [step |-> "crashed", fd |-> "none", off |-> 0]]
    /\ UNCHANGED << config, now, files, tmps, op, license_key, response,
                    online_error, record, result, log, saved_at >>

\* Someone calls FileCache::load for the key.
save_Load ==
    /\ online_error' = FileCache_load(SaveHash)
    /\ online_error' # online_error
    /\ UNCHANGED << config, now, files, tmps, pc, op, license_key, response,
                    record, result, log, saved_at >>

\* One caller at a time, whose process may die at any point of save.
InitSave == InitSaveOf({"p1"})

NextSave ==
    \/ save_Tick
    \/ \E p \in DOMAIN pc : save_Begin(p)
    \/ \E p \in DOMAIN pc : save_Create(p)
    \/ \E p \in DOMAIN pc : save_Write(p)
    \/ \E p \in DOMAIN pc : save_Rename(p)
    \/ \E p \in DOMAIN pc : save_Crash(p)
    \/ save_Load

SpecSave == InitSave /\ [][NextSave]_vars

\* Two callers at once, in two threads or two processes; none dies.
InitSaveRace == InitSaveOf({"p1", "p2"})

NextSaveRace ==
    \/ save_Tick
    \/ \E p \in DOMAIN pc : save_Begin(p)
    \/ \E p \in DOMAIN pc : save_Create(p)
    \/ \E p \in DOMAIN pc : save_Write(p)
    \/ \E p \in DOMAIN pc : save_Rename(p)
    \/ save_Load

SpecSaveRace == InitSaveRace /\ [][NextSaveRace]_vars

\* What load returns for a cache file with the given content.
LoadOf(content) ==
    IF IsNone(content) THEN [res |-> Ok, record |-> None]
    ELSE from_json(content[1])

\* load has returned nothing, or one whole record that was saved.
Complete(loaded) ==
    /\ IsOk(loaded.res)
    /\ loaded.record \in {None} \cup {Some(r) : r \in SaveRecords}

\* C13: at every point of FileCache.save, a crash after the temp-file write
\* and before the rename included, load for the key returns the record that
\* was stored when save was called (nothing if there was none) or the whole
\* new record, never content written in part; and once save has returned Ok
\* load returns the new record.
C13_AtomicSave ==
    /\ Complete(online_error)
    /\ Complete(FileCache_load(SaveHash))
    /\ pc["p1"].step \in {"create", "write", "rename", "crashed"}
          => FileCache_load(SaveHash) = LoadOf(log["p1"])
    /\ pc["p1"].step = "returned"
          => /\ result["p1"] = ReturnOk([valid |-> TRUE], FALSE)
             /\ FileCache_load(SaveHash) = [res |-> Ok, record |-> record["p1"]]

\* The process died after the temp file was written in full and before the
\* rename, while the cache file holds another record, stored earlier.
C13_Witness ==
    /\ pc["p1"].step = "crashed"
    /\ tmps[temp_path(SaveHash)] = Some(to_json(record["p1"][1]))
    /\ IsSome(log["p1"])
    /\ files[license_path(SaveHash)] = log["p1"]
    /\ log["p1"] # Some(to_json(record["p1"][1]))
    /\ online_error = LoadOf(log["p1"])

\* The process died with the temp file written in part.
C13_WitnessPartial ==
    /\ pc["p1"].step = "crashed"
    /\ IsSome(tmps[temp_path(SaveHash)])
    /\ Len(tmps[temp_path(SaveHash)][1]) = ChunkLen
    /\ IsSome(files[license_path(SaveHash)])

\* C14: two validate_key calls for the same key that both passed online
\* verification and both save: under every interleaving of their temp-file
\* writes and renames both return Ok, and load, afterwards and at every
\* moment in between, returns one of the whole records saved (or nothing
\* before the first rename), never a partial or mixed file.
C14_ConcurrentSaves ==
    /\ \A p \in DOMAIN pc :
          pc[p].step = "returned" => result[p] = ReturnOk([valid |-> TRUE], FALSE)
    /\ Complete(FileCache_load(SaveHash))

\* C14, first half: both calls return Ok.
C14_BothReturnOk ==
    \A p \in DOMAIN pc :
       pc[p].step = "returned" => result[p] = ReturnOk([valid |-> TRUE], FALSE)

\* C14, second half: load never returns a partial or mixed file.
C14_LoadComplete == Complete(FileCache_load(SaveHash))

\* The cache file holds a text that parses as a record neither caller saved.
C14_NoMixedRecord ==
    IsOk(FileCache_load(SaveHash).res) => Complete(FileCache_load(SaveHash))

(***************************************************************************)
(* policy/access.rs on its own: check_access, UsageCaps::allows_usage and  *)
(* check_access_with_usage applied to license states, lists of required    *)
(* entitlements and numbers of new uses.  `record` is the argument list,   *)
(* `op` the function applied and `result` what came of the call: a value   *)
(* returned, or a panic.                                                   *)
(***************************************************************************)
MaxRequired == 3
Codes == {"a", "b", "c"}
\* Every list of at most MaxRequired codes, repeats included.
RequiredLists == UNION { [1..n -> Codes] : n \in 0..MaxRequired }
\* The entitlements of a license: lists without repeats, in every order.
EntitlementLists ==
    { l \in RequiredLists : \A i, j \in 1..Len(l) : l[i] = l[j] => i = j }

LicenseState(valid, entitlements, max_uses, current_uses) ==
    [valid |-> valid, entitlements |-> entitlements, max_uses |-> max_uses,
     current_uses |-> current_uses, code |-> IF valid THEN "VALID" ELSE "EXPIRED"]

\* u64 values at both ends of the range and in the middle: 0, 1, 5, 6, 2^63,
\* u64::MAX - 1 and u64::MAX.
U64Values ==
    { U64(0, 0), U64(0, 1), U64(0, 5), U64(0, 6), U64(2, 0), U64(4, -2), U64(4, -1) }

\* No cap; 5 of 5 used; 6 of 5 used; a cap with no count.
FewCaps ==
    { << None, None >>, << Some(U64(0, 5)), Some(U64(0, 5)) >>,
      << Some(U64(0, 5)), Some(U64(0, 6)) >>, << Some(U64(0, 0)), None >> }

\* Every state and list with a few caps, and every cap with one state and list.
AccessInputs ==
    { [state |-> LicenseState(v, e, c[1], c[2]), required |-> r, additional |-> n] :
        v \in BOOLEAN, e \in EntitlementLists, r \in RequiredLists,
        c \in FewCaps, n \in {U64(0, 0), U64(0, 1)} }
    \cup
    { [state |-> LicenseState(TRUE, <<"a">>, l, c), required |-> <<"a">>,
       additional |-> n] :
        l \in {None} \cup {Some(x) : x \in U64Values},
        c \in {None} \cup {Some(x) : x \in U64Values},
        n \in U64Values }

Returned(v) == [ret |-> "returned", value |-> v]
\* The thread panicked: nothing is returned.
Panicked == [ret |-> "panicked", value |-> <<>>]

InitAccess ==
    /\ record \in AccessInputs
    /\ pc = "called"
    /\ op = ""
    /\ result = Pending
    /\ config = test_config(TEST_PUBLIC_KEY_HEX, from_secs(GraceSecs))
    /\ now = DateSecs * TicksPerSec
    /\ files = [s \in Stems |-> None]
    /\ tmps = [h \in Hashes |-> None]
    /\ license_key = ""
    /\ response = None
    /\ online_error = Ok
    /\ log = <<>>
    /\ saved_at = [s \in Stems |-> None]

access_check_access ==
    /\ pc = "called"
    /\ op' = "check_access"
    /\ result' = Returned(check_access(record.state, record.required))
    /\ pc' = "returned"
    /\ UNCHANGED << config, now, files, tmps, license_key, response,
                    online_error, record, log, saved_at >>

\* UsageCaps::from_license_state(state).allows_usage(additional): the sum of
\* line 75 wraps in a build without overflow checks and panics in one with.
access_allows_usage ==
    /\ pc = "called"
    /\ op' = "allows_usage"
    /\ LET caps == from_license_state(record.state) IN
       \E overflow_checks \in BOOLEAN :
          result' = IF overflow_checks /\ allows_usage_overflows(caps, record.additional)
                    THEN Panicked
                    ELSE Returned(allows_usage(caps, record.additional))
    /\ pc' = "returned"
    /\ UNCHANGED << config, now, files, tmps, license_key, response,
                    online_error, record, log, saved_at >>

access_check_access_with_usage ==
    /\ pc = "called"
    /\ op' = "check_access_with_usage"
    /\ LET caps == from_license_state(record.state) IN
       \E overflow_checks \in BOOLEAN :
          result' = IF /\ overflow_checks
                       /\ IsOk(check_access(record.state, record.required))
                       /\ allows_usage_overflows(caps, record.additional)
                    THEN Panicked
                    ELSE Returned(check_access_with_usage(record.state, record.required,
                                                          record.additional))
    /\ pc' = "returned"
    /\ UNCHANGED << config, now, files, tmps, license_key, response,
                    online_error, record, log, saved_at >>

NextAccess ==
    \/ access_check_access
    \/ access_allows_usage
    \/ access_check_access_with_usage

SpecAccess == InitAccess /\ [][NextAccess]_vars

\* The codes of a list, as a set.
CodesOf(list) == { list[i] : i \in 1..Len(list) }

\* Code c is the first of the required list that the state does not have.
FirstAbsent(c) ==
    \E i \in 1..Len(record.required) :
       /\ record.required[i] = c
       /\ c \notin CodesOf(record.state.entitlements)
       /\ \A j \in 1..(i - 1) :
             record.required[j] \in CodesOf(record.state.entitlements)

AllPresent == CodesOf(record.required) \subseteq CodesOf(record.state.entitlements)

\* C15: check_access(state, required) on a valid state returns
\* EntitlementMissing naming the first code of required, in the order of
\* required, that state.entitlements does not hold, and returns Ok iff
\* every required code is present.
C15_EntitlementOrder ==
    (pc = "returned" /\ op = "check_access" /\ record.state.valid)
    => /\ result.ret = "returned"
       /\ IsOk(result.value) <=> AllPresent
       /\ ~AllPresent =>
            /\ result.value.kind = "EntitlementMissing"
            /\ FirstAbsent(result.value.code)

\* required [a, b, c] with only b present reports a.
C15_Witness ==
    /\ pc = "returned"
    /\ op = "check_access"
    /\ record.state.valid
    /\ record.required = << "a", "b", "c" >>
    /\ record.state.entitlements = << "b" >>
    /\ result = Returned(EntitlementMissing("a"))

\* The cap of the state is exceeded by the new uses, as integers.
CapExceeded ==
    LET caps == from_license_state(record.state)
        current == IF IsSome(caps.current_uses) THEN caps.current_uses[1] ELSE U64(0, 0)
        sum == << current[1] + record.additional[1], current[2] + record.additional[2] >>
    IN IsSome(caps.monthly_limit) /\ ~u64_le(sum, caps.monthly_limit[1])

\* C16: check_access_with_usage runs the access check first and the cap
\* check second: a state with valid = false yields InvalidLicense even if an
\* entitlement is missing or the cap is exceeded, a valid state with a
\* missing entitlement yields EntitlementMissing even if the cap is
\* exceeded, and UsageLimitExceeded is returned only when the access check
\* passed.
C16_AccessBeforeCap ==
    (pc = "returned" /\ op = "check_access_with_usage")
    => /\ ~record.state.valid => result = Returned(InvalidLicense)
       /\ (record.state.valid /\ ~AllPresent) =>
             /\ result.ret = "returned"
             /\ result.value.kind = "EntitlementMissing"
             /\ FirstAbsent(result.value.code)
       /\ (result.ret = "returned" /\ result.value = UsageLimitExceeded) =>
             /\ record.state.valid
             /\ AllPresent
             /\ IsOk(check_access(record.state, record.required))

\* InvalidLicense for a state that is not valid, lacks a required
\* entitlement and is over its cap.
C16_Witness ==
    /\ pc = "returned"
    /\ op = "check_access_with_usage"
    /\ ~record.state.valid
    /\ ~AllPresent
    /\ CapExceeded
    /\ result = Returned(InvalidLicense)

\* EntitlementMissing for a valid state that lacks a required entitlement
\* and is over its cap.
C16_WitnessMissing ==
    /\ pc = "returned"
    /\ op = "check_access_with_usage"
    /\ record.state.valid
    /\ ~AllPresent
    /\ CapExceeded
    /\ result.value.kind = "EntitlementMissing"

\* C17: for all 64-bit unsigned values, allows_usage(n) with max_uses = L
\* and current_uses = C is true iff C + n <= L (an absent current_uses
\* counts as 0), and with max_uses absent it is true for every n.
C17_CapArithmetic ==
    (pc = "returned" /\ op = "allows_usage")
    => /\ result.ret = "returned"
       /\ result.value = ~CapExceeded

\* C17 where the sum C + n fits 64 bits.
C17_CapArithmeticNoOverflow ==
    (pc = "returned" /\ op = "allows_usage"
       /\ ~allows_usage_overflows(from_license_state(record.state), record.additional))
    => /\ result.ret = "returned"
       /\ result.value = ~CapExceeded

(***************************************************************************)
(* meter/usage.rs: UsageStats and UsageMeter.  One meter at one path, used *)
(* from one thread.  `record` is the meter's stats in memory, files and    *)
(* tmps hold the meter file and its temp file, `op` is the last method     *)
(* called, `result` what it returned, and saved_at the clock reading of    *)
(* the increment that set the stored daily_date and monthly_period (None   *)
(* before the first).  The u64 counters are integers: the guard of         *)
(* increment keeps them at MaxCount or less, far from 2^64.                *)
(***************************************************************************)
MaxCount == 3
SecsPerDay == 86400

\* dt.year(), dt.month(), dt.day() of the UTC instant of a clock reading:
\* the proleptic Gregorian date of its day, counted from 1970-01-01.
civil(ticks) ==
    LET z == (ticks \div (SecsPerDay * TicksPerSec)) + 719468
        era == z \div 146097
        doe == z - era * 146097
        yoe == (doe - (doe \div 1460) + (doe \div 36524) - (doe \div 146096)) \div 365
        doy == doe - (365 * yoe + (yoe \div 4) - (yoe \div 100))
        mp == (5 * doy + 2) \div 153
        m == IF mp < 10 THEN mp + 3 ELSE mp - 9
    IN [year |-> yoe + era * 400 + (IF m <= 2 THEN 1 ELSE 0),
        month |-> m,
        day |-> doy - ((153 * mp + 2) \div 5) + 1]

DigitChar(d) == << "0", "1", "2", "3", "4", "5", "6", "7", "8", "9" >>[d + 1]
Pow10(k) == IF k = 0 THEN 1 ELSE IF k = 1 THEN 10 ELSE IF k = 2 THEN 100 ELSE 1000
\* {:04} and {:02} of a number with no more digits than the width.
Pad(n, width) == [i \in 1..width |-> DigitChar((n \div Pow10(width - i)) % 10)]

\* format!("{:04}-{:02}-{:02}", dt.year(), dt.month(), dt.day())
format_date(dt) ==
    Pad(civil(dt).year, 4) \o << "-" >> \o Pad(civil(dt).month, 2)
        \o << "-" >> \o Pad(civil(dt).day, 2)

\* format!("{:04}-{:02}", dt.year(), dt.month())
format_month(dt) == Pad(civil(dt).year, 4) \o << "-" >> \o Pad(civil(dt).month, 2)

\* UsageStats::new(): Default
UsageStats_new ==
    [daily_count |-> 0, monthly_count |-> 0, daily_date |-> None,
     monthly_period |-> None, lifetime_count |-> 0]

\* An increment that keeps counting through a change of day.
UsageStats_increment_NoDailyReset(self, clock_now) ==
    LET this_month == format_month(clock_now) IN
    [daily_count |-> self.daily_count + 1,
     daily_date |-> Some(format_date(clock_now)),
     monthly_count |-> (IF self.monthly_period # Some(this_month)
                        THEN 0 ELSE self.monthly_count) + 1,
     monthly_period |-> Some(this_month),
     lifetime_count |-> self.lifetime_count + 1]

\* An increment whose daily rollover compares the day of the month only.
UsageStats_increment_DayOfMonth(self, clock_now) ==
    LET today == format_date(clock_now)
        this_month == format_month(clock_now)
        same_day == /\ IsSome(self.daily_date)
                    /\ SubSeq(self.daily_date[1], 9, 10) = SubSeq(today, 9, 10)
    IN [daily_count |-> (IF ~same_day THEN 0 ELSE self.daily_count) + 1,
        daily_date |-> Some(today),
        monthly_count |-> (IF self.monthly_period # Some(this_month)
                           THEN 0 ELSE self.monthly_count) + 1,
        monthly_period |-> Some(this_month),
        lifetime_count |-> self.lifetime_count + 1]

\* UsageStats::increment
UsageStats_increment(self, clock_now) ==
    LET today == format_date(clock_now)
        this_month == format_month(clock_now)
    IN [daily_count |-> (IF self.daily_date # Some(today)
                         THEN 0 ELSE self.daily_count) + 1,
        daily_date |-> Some(today),
        monthly_count |-> (IF self.monthly_period # Some(this_month)
                           THEN 0 ELSE self.monthly_count) + 1,
        monthly_period |-> Some(this_month),
        lifetime_count |-> self.lifetime_count + 1]

\* A read that gives the stored count on any day.
get_daily_count_NoRollover(self, clock_now) == self.daily_count

get_daily_count(self, clock_now) ==
    IF self.daily_date = Some(format_date(clock_now)) THEN self.daily_count ELSE 0

get_monthly_count(self, clock_now) ==
    IF self.monthly_period = Some(format_month(clock_now))
    THEN self.monthly_count ELSE 0

\* serde_json::to_string_pretty(&self.stats): the members in field order, a
\* None written as null.
Null == [null |-> TRUE]
stats_to_json(stats) ==
    << <<"daily_count", stats.daily_count>>,
       <<"monthly_count", stats.monthly_count>>,
       <<"daily_date", IF IsSome(stats.daily_date) THEN stats.daily_date[1] ELSE Null>>,
       <<"monthly_period",
         IF IsSome(stats.monthly_period) THEN stats.monthly_period[1] ELSE Null>>,
       <<"lifetime_count", stats.lifetime_count>> >>

\* An Option field: absent or null is None.
OptionMember(json, name) ==
    IF IsNone(Member(json, name)) \/ Member(json, name) = Some(Null) THEN None
    ELSE Member(json, name)

\* serde_json::from_str::<UsageStats>: the three counters are required.
\* Result<UsageStats, _>: [res, stats]
stats_from_json(json) ==
    IF \E n \in {"daily_count", "monthly_count", "lifetime_count"} :
          IsNone(Member(json, n))
    THEN [res |-> [kind |-> "MeterIO", age_seconds |-> 0, code |-> "Failed to parse meter"],
          stats |-> UsageStats_new]
    ELSE [res |-> Ok,
          stats |-> [daily_count |-> Member(json, "daily_count")[1],
                     monthly_count |-> Member(json, "monthly_count")[1],
                     daily_date |-> OptionMember(json, "daily_date"),
                     monthly_period |-> OptionMember(json, "monthly_period"),
                     lifetime_count |-> Member(json, "lifetime_count")[1]]]

MeterPath == "usage.json"
\* self.path.with_extension("tmp")
MeterTempPath == "usage.tmp"

\* UsageMeter::new(path): the stats of the file, or new ones with no file.
UsageMeter_new ==
    IF IsNone(files[MeterPath]) THEN [res |-> Ok, stats |-> UsageStats_new]
    ELSE stats_from_json(files[MeterPath][1])

\* Days since 1970-01-01 of 1971-12-31, 1972-01-01, 1972-01-31, 1972-02-01
\* and 1973-01-01, and clock readings at the start and in the last second
\* of each of them.
MeterDays == { 729, 730, 760, 761, 1096 }
MeterNows ==
    { (d * SecsPerDay + sec) * TicksPerSec : d \in MeterDays, sec \in {0, SecsPerDay - 1} }

InitMeter ==
    /\ now \in MeterNows
    /\ files = [f \in {MeterPath} |-> None]
    /\ tmps = [f \in {MeterTempPath} |-> None]
    /\ record = UsageMeter_new.stats
    /\ pc = "ready"
    /\ op = "new"
    /\ result = Returned(Ok)
    /\ config = test_config(TEST_PUBLIC_KEY_HEX, from_secs(GraceSecs))
    /\ license_key = ""
    /\ response = None
    /\ online_error = Ok
    /\ log = <<>>
    /\ saved_at = None

\* The clock may show any instant next, an earlier one included.
meter_Tick ==
    /\ now' \in MeterNows \ {now}
    /\ UNCHANGED << config, files, tmps, pc, op, license_key, response,
                    online_error, record, result, log, saved_at >>

\* UsageMeter::increment (lines 133-136) with save (lines 159-177): the
\* stats are incremented, written to the temp file, and the temp file is
\* renamed to the meter file.
meter_increment ==
    /\ record.lifetime_count < MaxCount
    /\ record' = UsageStats_increment(record, now)
    /\ files' = [files EXCEPT ![MeterPath] = Some(stats_to_json(record'))]
    /\ tmps' = [tmps EXCEPT ![MeterTempPath] = None]
    /\ op' = "increment"
    /\ result' = Returned(Ok)
    /\ saved_at' = Some(now)
    /\ UNCHANGED << config, now, pc, license_key, response, online_error, log >>

meter_daily_count ==
    /\ op' = "daily_count"
    /\ result' = Returned(get_daily_count(record, now))
    /\ UNCHANGED << config, now, files, tmps, pc, license_key, response,
                    online_error, record, log, saved_at >>

meter_monthly_count ==
    /\ op' = "monthly_count"
    /\ result' = Returned(get_monthly_count(record, now))
    /\ UNCHANGED << config, now, files, tmps, pc, license_key, response,
                    online_error, record, log, saved_at >>

meter_lifetime_count ==
    /\ op' = "lifetime_count"
    /\ result' = Returned(record.lifetime_count)
    /\ UNCHANGED << config, now, files, tmps, pc, license_key, response,
                    online_error, record, log, saved_at >>

\* The meter is dropped and UsageMeter::new(path) reads the file again.
meter_Reload ==
    /\ IsOk(UsageMeter_new.res)
    /\ record' = UsageMeter_new.stats
    /\ op' = "new"
    /\ result' = Returned(Ok)
    /\ UNCHANGED << config, now, files, tmps, pc, license_key, response,
                    online_error, log, saved_at >>

NextMeter ==
    \/ meter_Tick
    \/ meter_increment
    \/ meter_daily_count
    \/ meter_monthly_count
    \/ meter_lifetime_count
    \/ meter_Reload

SpecMeter == InitMeter /\ [][NextMeter]_vars

\* The UTC day and the UTC month of a clock reading, as numbers.
UtcDay(t) == t \div (SecsPerDay * TicksPerSec)
UtcMonth(t) == civil(t).year * 12 + civil(t).month

\* The clock's UTC day is the day the stored daily_date was set on, and its
\* UTC month the month the stored monthly_period was set in.
SameDay == IsSome(saved_at) /\ UtcDay(saved_at[1]) = UtcDay(now)
SameMonth == IsSome(saved_at) /\ UtcMonth(saved_at[1]) = UtcMonth(now)

\* A call of the method has returned in this step.
Called(method) == op' = method /\ << op, result, record >>' # << op, result, record >>

\* C18: daily_count(clock) returns the stored daily count when the clock's
\* UTC day is the stored daily_date and 0 otherwise, monthly_count(clock)
\* likewise for the UTC month; both reads leave the stored counters and
\* periods, in memory and in the meter file, unchanged.
C18_RolloverOnRead ==
    /\ [][Called("daily_count") =>
            /\ result' = Returned(IF SameDay THEN record.daily_count ELSE 0)
            /\ UNCHANGED << record, files, tmps >>]_vars
    /\ [][Called("monthly_count") =>
            /\ result' = Returned(IF SameMonth THEN record.monthly_count ELSE 0)
            /\ UNCHANGED << record, files, tmps >>]_vars

\* daily_count has returned 0 on a later day of the month of the stored
\* daily_date, with a stored daily count of 2 that monthly_count returns.
C18_Witness ==
    /\ op = "daily_count"
    /\ result = Returned(0)
    /\ record.daily_count = 2
    /\ record.daily_date = Some(format_date(730 * SecsPerDay * TicksPerSec))
    /\ UtcDay(now) = 760
    /\ get_monthly_count(record, now) = 2

\* C19: each increment raises lifetime_count by exactly 1, sets daily_count
\* to previous + 1 if the clock's UTC day is the stored daily_date and to 1
\* otherwise, and does the same for monthly_count with the UTC month; over
\* any sequence of increments and clock changes, and across a save and
\* reload of the meter file, lifetime_count never decreases.
C19_Increment ==
    /\ [][Called("increment") =>
            /\ record'.lifetime_count = record.lifetime_count + 1
            /\ record'.daily_count = IF SameDay THEN record.daily_count + 1 ELSE 1
            /\ record'.monthly_count = IF SameMonth THEN record.monthly_count + 1 ELSE 1
            /\ UsageMeter_new'.stats = record']_vars
    /\ [][record'.lifetime_count >= record.lifetime_count]_vars
    /\ [][Called("new") => record'.lifetime_count = record.lifetime_count]_vars

\* Three increments, the last in a new month, and a reload of the file: the
\* lifetime count is 3 while the daily and monthly counts started again.
C19_Witness ==
    /\ op = "new"
    /\ IsSome(files[MeterPath])
    /\ record.lifetime_count = 3
    /\ record.daily_count = 1
    /\ record.monthly_count = 1

(***************************************************************************)
(* Configuration pre-conditions (specification Spec, whose every state has *)
(* a manager that LicenseManager::new created from its config)             *)
(***************************************************************************)
\* public_key_hex is exactly 64 hex characters.
Hex64(public_key_hex) == public_key_hex.len = 64 /\ public_key_hex.hex

\* C20, first half: LicenseManager::new returns ConfigError, and creates no
\* manager, when account_id is empty, when public_key_hex is not exactly 64
\* hex characters, or when cache_namespace is empty: the config of a
\* manager that was created has none of these.
C20_CreatedOnlyFromValidConfig ==
    /\ config.account_id # ""
    /\ Hex64(config.public_key_hex)
    /\ config.cache_namespace # ""

\* C20, second half: a manager that was created never reports ConfigError
\* during validate_key or check_access.
C20_NoConfigErrorAfterNew ==
    op \in {"validate_key", "check_access"} => result.err.kind # "ConfigError"

\* C20: both halves.
C20_ConfigPreconditions ==
    C20_CreatedOnlyFromValidConfig /\ C20_NoConfigErrorAfterNew

\* The second half for a key of 64 hex characters.
C20_NoConfigErrorWithHex64 ==
    (op \in {"validate_key", "check_access"} /\ Hex64(config.public_key_hex))
    => result.err.kind # "ConfigError"

\* The second half for a key that decodes to a point of the curve.
C20_NoConfigErrorWithDecodableKey ==
    (op \in {"validate_key", "check_access"}
       /\ IsOk(decode_public_key(config.public_key_hex).res))
    => result.err.kind # "ConfigError"

(***************************************************************************)
(* cache/file.rs: the cache directory <data_dir>/<namespace> as a whole.   *)
(* FileCache::new (lines 21-32) and UsageMeter::with_namespace             *)
(* (meter/usage.rs lines 120-131) both join dirs::data_dir() with the      *)
(* namespace, so the cache files and usage.json share one directory.       *)
(* In this specification files holds the directory's .json entries (a      *)
(* cache file under its stem, the meter file under its name) and tmps its  *)
(* .tmp entries, one per key hash.  Each method runs as a whole; save may  *)
(* fail at fs::write or at fs::rename.                                     *)
(***************************************************************************)
\* Three key hashes; the first two agree in their first 16 characters.
DirHashes == { << "p16:a", "r48:a" >>, << "p16:a", "r48:b" >>, << "p16:b", "r48:c" >> }
DirStems == { h[1] : h \in DirHashes }
DirJson == DirStems \cup { MeterPath }
DirNow == DateSecs * TicksPerSec

\* A record whose body was changed after signing: CacheRecord::verify
\* rejects it.
ForgedRecord ==
    LET r == CHOOSE r \in SaveRecords : r.cached_at = DirNow /\ IsSome(r.digest)
    IN [r EXCEPT !.body = BodyInvalid]
DirRecords ==
    { CHOOSE r \in SaveRecords : r.cached_at = DirNow /\ IsNone(r.digest), ForgedRecord }

\* A clear that removes every entry, whatever its extension.
clear_removes_All(extension) == TRUE

\* The test of clear, line 104: path.extension() == "json".
clear_removes(extension) == extension = "json"

InitDir ==
    /\ config = test_config(TEST_PUBLIC_KEY_HEX, from_secs(GraceSecs))
    /\ now = DirNow
    /\ files = [f \in DirJson |-> None]
    /\ tmps = [h \in DirHashes |-> None]
    /\ pc = "ready"
    /\ op = "new"
    /\ license_key = ""
    /\ response = None
    /\ online_error = Ok
    /\ record = None
    /\ result = Returned(Ok)
    /\ log = {}
    /\ saved_at = [s \in DirStems |-> None]

\* FileCache::save, lines 52-67.  saved_at keeps, for the first 16 characters
\* of the hash, the record of the last save that returned Ok.
dir_save(license_key_hash, rec, fault) ==
    LET target_path == license_path(license_key_hash)
        temp_path_ == temp_path(license_key_hash)
        json == to_json(rec)
    IN /\ op' = "save"
       /\ license_key' = license_key_hash
       /\ CASE fault = "write" ->
                 /\ result' = Returned(CacheIO("Failed to write temp file"))
                 /\ UNCHANGED << files, tmps, saved_at >>
            [] fault = "rename" ->
                 /\ tmps' = [tmps EXCEPT ![temp_path_] = Some(json)]
                 /\ result' = Returned(CacheIO("Failed to rename cache file"))
                 /\ UNCHANGED << files, saved_at >>
            [] OTHER ->
                 /\ tmps' = [tmps EXCEPT ![temp_path_] = None]
                 /\ files' = [files EXCEPT ![target_path] = Some(json)]
                 /\ result' = Returned(Ok)
                 /\ saved_at' = [saved_at EXCEPT ![license_key_hash[1]] = Some(rec)]
       /\ UNCHANGED << config, now, pc, response, online_error, record, log >>

\* FileCache::load, lines 70-82
dir_load(license_key_hash) ==
    /\ op' = "load"
    /\ license_key' = license_key_hash
    /\ result' = Returned(FileCache_load(license_key_hash))
    /\ UNCHANGED << config, now, files, tmps, pc, response, online_error,
                    record, log, saved_at >>

\* FileCache::delete, lines 85-94
dir_delete(license_key_hash) ==
    LET path == license_path(license_key_hash) IN
    /\ op' = "delete"
    /\ license_key' = license_key_hash
    /\ files' = IF IsSome(files[path]) THEN [files EXCEPT ![path] = None] ELSE files
    /\ result' = Returned(Ok)
    /\ saved_at' = [saved_at EXCEPT ![license_key_hash[1]] = None]
    /\ UNCHANGED << config, now, tmps, pc, response, online_error, record, log >>

\* FileCache::clear, lines 97-110.  log keeps the names of the entries this
\* call removed.
dir_clear ==
    /\ op' = "clear"
    /\ log' = {f \in DOMAIN files : clear_removes("json") /\ IsSome(files[f])}
    /\ license_key' = ""
    /\ files' = [f \in DOMAIN files |-> IF clear_removes("json") THEN None ELSE files[f]]
    /\ tmps' = [h \in DOMAIN tmps |-> IF clear_removes("tmp") THEN None ELSE tmps[h]]
    /\ result' = Returned(Ok)
    /\ saved_at' = [s \in DirStems |-> None]
    /\ UNCHANGED << config, now, pc, response, online_error, record >>

\* UsageMeter::with_namespace(ns).increment(): usage.json is read, the
\* stats are incremented and written back (meter/usage.rs lines 120-136 and
\* 159-177).
dir_meter_increment ==
    /\ IsOk(UsageMeter_new.res)
    /\ UsageMeter_new.stats.lifetime_count < MaxCount
    /\ op' = "meter_increment"
    /\ license_key' = ""
    /\ files' = [files EXCEPT ![MeterPath] =
                    Some(stats_to_json(UsageStats_increment(UsageMeter_new.stats, now)))]
    /\ result' = Returned(Ok)
    /\ UNCHANGED << config, now, tmps, pc, response, online_error, record,
                    log, saved_at >>

NextDir ==
    \/ \E h \in DirHashes, r \in DirRecords, fault \in {"none", "write", "rename"} : dir_save(h, r, fault)
    \/ \E h \in DirHashes : dir_load(h)
    \/ \E h \in DirHashes : dir_delete(h)
    \/ dir_clear
    \/ dir_meter_increment

SpecDir == InitDir /\ [][NextDir]_vars

Absent == [res |-> Ok, record |-> None]

\* C21: FileCache is a map from the first 16 characters of the key hash to
\* a record.  saved_at is that map: a save that returned Ok sets the entry
\* of its stem, a delete empties it, a clear empties all, and no call
\* touches the entry of another stem.  In every state load(h) returns
\* exactly the entry of h's stem: the record of the last successful save,
\* absent when there is none, unchanged by calls for other stems, and
\* returned whether or not it would pass CacheRecord::verify.
C21_CacheIsMap ==
    \A h \in DirHashes :
        FileCache_load(h) = [res |-> Ok, record |-> saved_at[h[1]]]

\* A load has returned a record that CacheRecord::verify rejects, saved
\* under the other hash of its stem, while the other stem holds a different
\* record.
C21_Witness ==
    /\ op = "load"
    /\ license_key = << "p16:a", "r48:a" >>
    /\ result = Returned([res |-> Ok, record |-> Some(ForgedRecord)])
    /\ ~IsOk(CacheRecord_verify(ForgedRecord, config.public_key_hex,
                                 config.offline_grace, now))
    /\ IsNone(tmps[<< "p16:a", "r48:a" >>])
    /\ IsSome(tmps[<< "p16:b", "r48:c" >>])
    /\ FileCache_load(<< "p16:b", "r48:c" >>).record \notin {None, Some(ForgedRecord)}

\* C22: delete and clear are idempotent.  A delete of a record that is not
\* there returns Ok and changes no file; clear removes every .json entry of
\* the namespace directory, the meter's usage.json included, leaves the
\* .tmp entries, and after it every load returns absent; a second clear or
\* delete changes nothing more.
C22_DeleteClearIdempotent ==
    [][ /\ op' = "delete" /\ IsNone(files[license_path(license_key')])
           => /\ result' = Returned(Ok)
              /\ UNCHANGED << files, tmps >>
        /\ op' = "delete" /\ op = "delete" /\ license_key' = license_key
           => UNCHANGED << files, tmps >>
        /\ op' = "clear"
           => /\ result' = Returned(Ok)
              /\ \A f \in DirJson : IsNone(files'[f])
              /\ tmps' = tmps
              /\ \A h \in DirHashes : FileCache_load(h)' = Absent
        /\ op' = "clear" /\ op = "clear" => UNCHANGED << files, tmps >>
      ]_vars

\* A clear has just removed a cache file and the meter's usage.json and
\* left a .tmp file behind.
C22_Witness ==
    /\ op = "clear"
    /\ \A f \in DirJson : IsNone(files[f])
    /\ \E h \in DirHashes : IsSome(tmps[h])
    /\ MeterPath \in log
    /\ \E s \in DirStems : s \in log

(***************************************************************************)
(* The order of the pipeline's steps (specification SpecPipeline).         *)
(***************************************************************************)
\* The steps of verify_response on the state's response, each applied to
\* what the steps before it produced.
StepHeaders ==
    IF IsNone(response[1].signature) \/ IsNone(response[1].date)
    THEN SignatureMissing ELSE Ok
StepDigest == verify_digest(response[1].body, response[1].digest)
StepParse == parse_signature_header(response[1].signature[1]).res
StepKey == decode_public_key(config.public_key_hex).res
StepEd25519 ==
    verify_ed25519(parse_signature_header(response[1].signature[1]).signature,
                   build_signing_string("post", response[1].request_path,
                                        response[1].host, response[1].date[1],
                                        response[1].digest),
                   decode_public_key(config.public_key_hex).key)
StepFreshness == check_date_freshness(response[1].date[1], now)
SignatureVerifies ==
    /\ IsOk(StepHeaders) /\ IsOk(StepDigest) /\ IsOk(StepParse)
    /\ IsOk(StepKey) /\ IsOk(StepEd25519)
DateErrors ==
    { e \in {online_error} :
        \/ e.kind \in {"ResponseTooOld", "ResponseFromFuture"}
        \/ e = ProtocolError("Invalid date header") }

\* C23: verify_response returns the error of the first failing step in the
\* order missing headers, digest, signature-header parse, key decode,
\* Ed25519, freshness.  A digest mismatch wins over an invalid signature,
\* and ResponseTooOld, ResponseFromFuture and the date's ProtocolError are
\* returned only when the signature verifies.
C23_ErrorPrecedence ==
    (pc = "verified" /\ op = "verify_response")
    => /\ online_error =
             IF ~IsOk(StepHeaders) THEN StepHeaders
             ELSE IF ~IsOk(StepDigest) THEN StepDigest
             ELSE IF ~IsOk(StepParse) THEN StepParse
             ELSE IF ~IsOk(StepKey) THEN StepKey
             ELSE IF ~IsOk(StepEd25519) THEN StepEd25519
             ELSE StepFreshness
       /\ (IsOk(StepHeaders) /\ StepDigest = DigestMismatch)
             => online_error = DigestMismatch
       /\ DateErrors # {} => SignatureVerifies

\* verify_response has returned DigestMismatch for a response whose digest
\* does not match, whose signature is nobody's, and whose date is stale.
C23_Witness ==
    /\ pc = "verified" /\ op = "verify_response"
    /\ online_error = DigestMismatch
    /\ IsOk(StepHeaders) /\ IsOk(StepParse) /\ IsOk(StepKey)
    /\ StepEd25519 = SignatureInvalid
    /\ StepFreshness.kind = "ResponseTooOld"

\* verify_response has returned the date's error for a signed response.
C23_WitnessDate ==
    /\ pc = "verified" /\ op = "verify_response"
    /\ online_error = ProtocolError("Invalid date header")
    /\ SignatureVerifies

\* C25: verify_response is verify_response_signature_only followed by the
\* freshness check: for every response, key and clock, verify_response
\* returns Ok exactly when verify_response_signature_only returns Ok and
\* check_date_freshness of the Date header returns Ok, and when
\* verify_response_signature_only returns an error verify_response returns
\* that same error.
C25_SignatureOnlyIsPrefix ==
    pc = "verified"
    => LET full == verify_response(response[1], config.public_key_hex, now)
           sig_only == verify_response_signature_only(response[1], config.public_key_hex)
       IN /\ op = "verify_response" => online_error = full
          /\ op = "verify_response_signature_only" => online_error = sig_only
          /\ IsOk(full) <=> (IsOk(sig_only) /\ IsOk(StepFreshness))
          /\ ~IsOk(sig_only) => full = sig_only

\* verify_response_signature_only has accepted a response that
\* verify_response rejects at this clock for its age.
C25_Witness ==
    /\ pc = "verified" /\ op = "verify_response_signature_only"
    /\ online_error = Ok
    /\ verify_response(response[1], config.public_key_hex, now).kind = "ResponseTooOld"

\* Both have returned the same error for a response with a wrong digest.
C25_WitnessError ==
    /\ pc = "verified" /\ op = "verify_response"
    /\ online_error = DigestMismatch
    /\ verify_response_signature_only(response[1], config.public_key_hex) = DigestMismatch
    /\ ~IsOk(StepFreshness)

(***************************************************************************)
(* The errors of CacheRecord::verify (specification SpecRecord).           *)
(***************************************************************************)
\* C24: CacheRecord::verify reports every failure of signature-header
\* parsing, public-key decoding, Ed25519 verification and digest
\* re-verification as CacheTampered, so that whatever record it is given
\* it returns Ok, CacheTampered or CacheExpired and nothing else.
C24_OnlyTamperedOrExpired ==
    pc = "verified" => online_error.kind \in {"Ok", "CacheTampered", "CacheExpired"}

\* What the code does: the errors of steps 1 and 2 are passed on unchanged
\* (the ? of lines 101 and 104 has no map_err), those of steps 4 and 5
\* become CacheTampered.
C24_ParserErrorsPassThrough ==
    pc = "verified"
    => /\ online_error.kind \in {"Ok", "CacheTampered", "CacheExpired", "ProtocolError"}
       /\ online_error.kind = "ProtocolError"
             <=> ~IsOk(parse_signature_header(record[1].signature).res)
       /\ ~IsOk(parse_signature_header(record[1].signature).res)
             => online_error = parse_signature_header(record[1].signature).res

(***************************************************************************)
(* crypto/verify.rs: parse_signature_header on its own, applied to every   *)
(* header of at most MaxSegments segments drawn from HeaderSegments.       *)
(* `record` is the header, `online_error` the result and `result` the      *)
(* signature value of the parsed header.                                   *)
(***************************************************************************)
MaxSegments == 3

TheSignature == SigBytes(TRUE, 64, "keygen", <<>>)
OtherSignature == SigBytes(TRUE, 64, "", <<>>)
HeaderSegments ==
    { Param("algorithm", "ed25519"),
      Param("ALGORITHM", "rsa-sha256"),
      Segment(TRUE, "Algorithm", "none", "ed25519", NoBytes),
      Segment(TRUE, "algorithm", "two", "ed25519", NoBytes),
      Segment(TRUE, "algorithm", "open", "ed25519", NoBytes),
      SigParam(TheSignature),
      Segment(TRUE, "Signature", "none", "b64", OtherSignature),
      Segment(TRUE, "signature", "both", "", NoBytes),
      Segment(TRUE, "signature", "none", "", NoBytes),
      Segment(TRUE, "signature", "two", "b64", TheSignature),
      Param("keyid", "test-id"),
      Segment(FALSE, "signature", "none", "", NoBytes) }

Headers == UNION { [1..n -> HeaderSegments] : n \in 0..MaxSegments }

InitHeader ==
    /\ record \in Headers
    /\ pc = "received"
    /\ op = ""
    /\ online_error = Ok
    /\ result = Pending
    /\ config = test_config(TEST_PUBLIC_KEY_HEX, from_secs(GraceSecs))
    /\ now = DateSecs * TicksPerSec
    /\ files = [s \in Stems |-> None]
    /\ tmps = [h \in Hashes |-> None]
    /\ license_key = ""
    /\ response = None
    /\ log = <<>>
    /\ saved_at = [s \in Stems |-> None]

header_parse ==
    /\ pc = "received"
    /\ op' = "parse_signature_header"
    /\ online_error' = parse_signature_header(record).res
    /\ result' = Returned(parse_signature_header(record).signature)
    /\ pc' = "parsed"
    /\ UNCHANGED << config, now, files, tmps, license_key, response, record,
                    log, saved_at >>

\* The parsed signature is what verify_ed25519 is given next.
header_verify ==
    /\ pc = "parsed"
    /\ IsOk(online_error)
    /\ op' = "verify_ed25519"
    /\ online_error' = verify_ed25519(result.value, <<>>, "keygen")
    /\ pc' = "verified"
    /\ UNCHANGED << config, now, files, tmps, license_key, response, record,
                    result, log, saved_at >>

NextHeader == header_parse \/ header_verify

SpecHeader == InitHeader /\ [][NextHeader]_vars

\* The last segment `name = value` of the header whose name is `name` in any
\* letter case (0: none), and its value without one pair of surrounding
\* double quotes.
LastNamed(name) ==
    LET hits == {i \in 1..Len(record) :
                    record[i].eq /\ record[i].k \in
                       (IF name = "algorithm"
                        THEN {"algorithm", "Algorithm", "ALGORITHM"}
                        ELSE {"signature", "Signature", "SIGNATURE"})}
    IN IF hits = {} THEN 0 ELSE CHOOSE i \in hits : \A j \in hits : j <= i
Unquoted(seg) ==
    [q |-> CASE seg.q = "both" -> "none" [] seg.q = "two" -> "both" [] OTHER -> seg.q,
     txt |-> seg.txt, pay |-> seg.pay]
IsEd25519(v) == v.q = "none" /\ v.txt = "ed25519"
IsEmptyValue(v) == v.q = "none" /\ v.txt = ""

\* C26: parse_signature_header returns a ProtocolError when the algorithm
\* parameter is missing or is not ed25519, or when the signature parameter
\* is missing or empty, and otherwise succeeds with the signature value;
\* names are matched in any letter case, one pair of surrounding double
\* quotes is stripped from each value, and the last occurrence of a
\* repeated parameter wins.
C26_ParseContract ==
    (pc = "parsed")
    => LET a == LastNamed("algorithm")
           g == LastNamed("signature")
           rejected == \/ a = 0
                       \/ ~IsEd25519(Unquoted(record[a]))
                       \/ g = 0
                       \/ IsEmptyValue(Unquoted(record[g]))
       IN IF rejected THEN online_error.kind = "ProtocolError"
          ELSE /\ online_error = Ok
               /\ result = Returned(Unquoted(record[g]))

\* What the code does: the same, except that an empty signature value is
\* accepted and returned like any other.
C26_ParseContractEmptyAccepted ==
    (pc = "parsed")
    => LET a == LastNamed("algorithm")
           g == LastNamed("signature")
           rejected == \/ a = 0
                       \/ ~IsEd25519(Unquoted(record[a]))
                       \/ g = 0
       IN IF rejected THEN online_error.kind = "ProtocolError"
          ELSE /\ online_error = Ok
               /\ result = Returned(Unquoted(record[g]))

\* The empty signature is turned down one step later, by verify_ed25519.
C26_EmptySignatureInvalid ==
    (pc = "verified" /\ IsEmptyValue(result.value)) => online_error = SignatureInvalid

(***************************************************************************)
(* crypto/verify.rs: decode_public_key with its process-wide KEY_CACHE,    *)
(* called from several threads at once.  The definition decode_public_key  *)
(* above is what lines 93-102 compute from the hex string; here the        *)
(* function runs step by step: the look-up under the read lock (lines      *)
(* 87-91), the decoding, and the insert under the write lock (lines        *)
(* 105-107).  A lock section is one step, since the RwLock keeps writers   *)
(* out of it.  In this specification `files` is the HashMap of KEY_CACHE,  *)
(* `tmps` tells whether the RwLock is poisoned (read() and write() then    *)
(* return Err), and pc, license_key, record and result are per caller:     *)
(* position, argument, decoded key and returned value.  `log` is the set   *)
(* of callers whose insert replaced an entry.                              *)
(***************************************************************************)
Callers == {1, 2}
OtherKeyHex == PublicKeyHex(64, TRUE, TRUE, "other")
KeyHexes == { TEST_PUBLIC_KEY_HEX, OtherKeyHex, NotHexKey, ShortKey, NotPointKey }

\* An insert that files every key under one entry.
cache_entry_key_Fixed(hex_key) == TEST_PUBLIC_KEY_HEX

\* The HashMap key of get (line 88) and insert (line 106): the hex string.
cache_entry_key(hex_key) == hex_key

InitKeyCache ==
    /\ files = [h \in KeyHexes |-> None]
    /\ tmps \in BOOLEAN
    /\ pc = [p \in Callers |-> "idle"]
    /\ license_key = [p \in Callers |-> NotHexKey]
    /\ record = [p \in Callers |-> None]
    /\ result = [p \in Callers |-> Pending]
    /\ log = {}
    /\ op = "decode_public_key"
    /\ config = test_config(TEST_PUBLIC_KEY_HEX, from_secs(GraceSecs))
    /\ now = DateSecs * TicksPerSec
    /\ response = None
    /\ online_error = Ok
    /\ saved_at = None

kc_Call(p, hex_key) ==
    /\ pc[p] \in {"idle", "returned"}
    /\ pc' = [pc EXCEPT ![p] = "called"]
    /\ license_key' = [license_key EXCEPT ![p] = hex_key]
    /\ record' = [record EXCEPT ![p] = None]
    /\ result' = [result EXCEPT ![p] = Pending]
    /\ UNCHANGED << config, now, files, tmps, op, response, online_error,
                    log, saved_at >>

\* Lines 86-91: a hit under the read lock returns the cached key.
kc_Read(p) ==
    /\ pc[p] = "called"
    /\ LET hit == ~tmps /\ IsSome(files[cache_entry_key(license_key[p])]) IN
       IF hit
       THEN /\ result' = [result EXCEPT ![p] =
                  Returned([res |-> Ok, key |-> files[cache_entry_key(license_key[p])][1]])]
            /\ pc' = [pc EXCEPT ![p] = "returned"]
       ELSE /\ pc' = [pc EXCEPT ![p] = "missed"]
            /\ UNCHANGED result
    /\ UNCHANGED << config, now, files, tmps, op, license_key, response,
                    online_error, record, log, saved_at >>

\* Lines 93-102: hex::decode, try_into and VerifyingKey::from_bytes; an
\* error returns at once.
kc_Decode(p) ==
    /\ pc[p] = "missed"
    /\ LET d == decode_public_key(license_key[p]) IN
       IF IsOk(d.res)
       THEN /\ record' = [record EXCEPT ![p] = Some(d.key)]
            /\ pc' = [pc EXCEPT ![p] = "decoded"]
            /\ UNCHANGED result
       ELSE /\ result' = [result EXCEPT ![p] = Returned(d)]
            /\ pc' = [pc EXCEPT ![p] = "returned"]
            /\ UNCHANGED record
    /\ UNCHANGED << config, now, files, tmps, op, license_key, response,
                    online_error, log, saved_at >>

\* Lines 104-109: the insert if the write lock can be taken, and the return
\* of the decoded key either way.
kc_Insert(p) ==
    /\ pc[p] = "decoded"
    /\ IF tmps THEN UNCHANGED << files, log >>
       ELSE /\ files' = [files EXCEPT ![cache_entry_key(license_key[p])] = record[p]]
            /\ log' = IF IsSome(files[cache_entry_key(license_key[p])])
                      THEN log \cup {p} ELSE log
    /\ result' = [result EXCEPT ![p] = Returned([res |-> Ok, key |-> record[p][1]])]
    /\ pc' = [pc EXCEPT ![p] = "returned"]
    /\ UNCHANGED << config, now, tmps, op, license_key, response,
                    online_error, record, saved_at >>

NextKeyCache ==
    \E p \in Callers :
        \/ \E h \in KeyHexes : kc_Call(p, h)
        \/ kc_Read(p)
        \/ kc_Decode(p)
        \/ kc_Insert(p)

SpecKeyCache == InitKeyCache /\ [][NextKeyCache]_vars

\* C27: the key cache changes no result.  Under every interleaving of the
\* callers, with the lock usable or not, each call returns what decoding
\* its hex string gives; every cache entry holds the key its hex string
\* decodes to, so an insert over an existing entry stores an equal key; and
\* a hex string that does not decode has no entry.
C27_CacheTransparent ==
    /\ \A p \in Callers :
          pc[p] = "returned"
             => result[p] = Returned(decode_public_key(license_key[p]))
    /\ \A h \in KeyHexes :
          IsSome(files[h])
             => /\ IsOk(decode_public_key(h).res)
                /\ files[h][1] = decode_public_key(h).key

\* Both callers decoded the same key at once and the second insert replaced
\* the first one's entry; a later call was then served from the cache.
C27_Witness ==
    /\ log # {}
    /\ pc[1] = "returned" /\ pc[2] = "returned"
    /\ license_key[1] = OtherKeyHex /\ license_key[2] = OtherKeyHex
    /\ IsNone(record[1]) /\ IsSome(record[2])
    /\ result[1] = result[2]

\* With the lock poisoned a call has returned the decoded key and the cache
\* is still empty.
C27_WitnessPoisoned ==
    /\ tmps
    /\ pc[1] = "returned"
    /\ result[1] = Returned([res |-> Ok, key |-> "other"])
    /\ \A h \in KeyHexes : IsNone(files[h])

(***************************************************************************)
(* crypto/signing.rs: build_signing_string on its own, applied to every    *)
(* combination of the arguments below.  `record` holds the arguments and   *)
(* `result` the string returned, as the sequence of its pieces.            *)
(***************************************************************************)
SigningMethods == { "POST", "Post", "post", "get" }
SigningPaths == { "/v1/test", "/v1/accounts/keygen/licenses?limit=1" }
SigningHosts == { "api.keygen.sh", "" }
SigningDates == { "Wed, 09 Jun 2021 16:08:15 GMT", "", "Wed, 09 Jun 2021 16:08:15 GMT\n" }
SigningDigests == { None, Some("sha-256=abc123="), Some(""), Some("sha-256=abc123=\n") }

InitSigning ==
    /\ record \in [method : SigningMethods, path : SigningPaths, host : SigningHosts,
                   date : SigningDates, digest_header : SigningDigests]
    /\ pc = "called"
    /\ op = ""
    /\ result = Pending
    /\ config = test_config(TEST_PUBLIC_KEY_HEX, from_secs(GraceSecs))
    /\ now = DateSecs * TicksPerSec
    /\ files = [s \in Stems |-> None]
    /\ tmps = [h \in Hashes |-> None]
    /\ license_key = ""
    /\ response = None
    /\ online_error = Ok
    /\ log = <<>>
    /\ saved_at = [s \in Stems |-> None]

signing_build ==
    /\ pc = "called"
    /\ op' = "build_signing_string"
    /\ result' = Returned(build_signing_string(record.method, record.path, record.host,
                                              record.date, record.digest_header))
    /\ pc' = "built"
    /\ UNCHANGED << config, now, files, tmps, license_key, response,
                    online_error, record, log, saved_at >>

\* The same call once more with another spelling of the method or without
\* the digest: `log` keeps the string of the first call.
signing_again ==
    /\ pc = "built"
    /\ \/ \E m2 \in SigningMethods \ {record.method} :
             record' = [record EXCEPT !.method = m2]
       \/ /\ IsSome(record.digest_header)
          /\ record' = [record EXCEPT !.digest_header = None]
    /\ log' = result.value
    /\ result' = Returned(build_signing_string(record'.method, record'.path, record'.host,
                                              record'.date, record'.digest_header))
    /\ pc' = "rebuilt"
    /\ UNCHANGED << config, now, files, tmps, op, license_key, response,
                    online_error, saved_at >>

NextSigning == signing_build \/ signing_again

SpecSigning == InitSigning /\ [][NextSigning]_vars

\* Whether a string of the inputs above ends with a line feed.
EndsWithNewlineChar(str) ==
    str \in { "Wed, 09 Jun 2021 16:08:15 GMT\n", "sha-256=abc123=\n" }
\* Whether the concatenation of the pieces ends with a line feed: its last
\* piece that is not empty does.
EndsWithNewline(pieces) ==
    LET full == {i \in 1..Len(pieces) : pieces[i] # ""}
    IN full # {} /\ EndsWithNewlineChar(pieces[CHOOSE i \in full : \A j \in full : j <= i])
SameLetters(m1, m2) ==
    m1 = m2 \/ {m1, m2} \subseteq {"POST", "Post", "post"}
WithoutDigest ==
    build_signing_string(record.method, record.path, record.host, record.date, None)
Built == pc \in {"built", "rebuilt"}

\* C28 as stated: among the rest, the result never ends with a newline.
C28_NeverEndsWithNewline ==
    Built => ~EndsWithNewline(result.value)

\* C28: the signing string with Some(x) is the string with None followed by
\* a newline and "digest: x"; with None there is no digest line; methods
\* that differ only in letter case give the same string; path, host, date
\* and digest are inserted as they are; and the function adds no newline
\* at the end: the result ends with a newline only when the last value
\* inserted (the digest, or the date when there is none) ends with one.
C28_CanonicalForm ==
    Built
    => /\ IsSome(record.digest_header)
             => result.value = WithoutDigest \o << "\ndigest: ", record.digest_header[1] >>
       /\ IsNone(record.digest_header)
             => /\ result.value = WithoutDigest
                /\ \A i \in 1..Len(result.value) : result.value[i] # "\ndigest: "
       /\ \A m2 \in SigningMethods :
             SameLetters(m2, record.method)
                => build_signing_string(m2, record.path, record.host, record.date,
                                        record.digest_header) = result.value
       /\ result.value[4] = record.path
       /\ result.value[6] = record.host
       /\ result.value[8] = record.date
       /\ IsSome(record.digest_header) => result.value[10] = record.digest_header[1]
       /\ EndsWithNewline(result.value)
             <=> IF IsSome(record.digest_header) /\ record.digest_header[1] # ""
                 THEN EndsWithNewlineChar(record.digest_header[1])
                 ELSE IF IsSome(record.digest_header) THEN FALSE
                 ELSE EndsWithNewlineChar(record.date)
       /\ (pc = "rebuilt" /\ Len(log) > Len(result.value))
             => log = result.value \o << "\ndigest: ", log[10] >>

\* "POST" and then "post" have given the same string, with a digest.
C28_Witness ==
    /\ pc = "rebuilt"
    /\ record.method = "post"
    /\ log = result.value
    /\ log[2] = "post"
    /\ IsSome(record.digest_header)
    /\ Len(result.value) = 10
    /\ ~EndsWithNewline(result.value)

\* A date that ends with a line feed, no digest: the string ends with it.
C28_WitnessNewline ==
    /\ pc = "built"
    /\ IsNone(record.digest_header)
    /\ EndsWithNewline(result.value)

(***************************************************************************)
(* One attempt online, one fallback (specification Spec).                  *)
(***************************************************************************)
Count(steps) == Cardinality({i \in 1..Len(log) : log[i] \in steps})
LoadSteps == { "load", "load_none", "read_failed", "deserialize_failed" }
\* The steps a call took after it fell back.
AfterFallback ==
    LET f == CHOOSE i \in 1..Len(log) : log[i] = "fallback"
    IN SubSeq(log, f + 1, Len(log))
\* The steps of one call of the manager, the clock and the entry points
\* left out.
CallStep ==
    \/ validate_online_Transport
    \/ validate_online_Verify
    \/ validate_online_Parse
    \/ validate_online_Access
    \/ validate_online_WriteTemp
    \/ validate_online_Rename
    \/ validate_offline_Gate
    \/ cache_Load
    \/ cache_Verify
    \/ cache_Access

\* The steps of a validate_key call: at most one transport request, at
\* most one cache load, at most nine steps in all, each of which can be
\* taken; the load comes after the one transport request and nothing of
\* the online attempt comes after it; and the call ends at the offline step
\* that produced an error, with that error as its result.
C29_Steps ==
    op = "validate_key"
    => /\ Count({"transport"}) <= 1
       /\ Count(LoadSteps) <= 1
       /\ Count({"fallback"}) <= 1
       /\ Len(log) <= 9
       /\ pc # "idle" => ENABLED CallStep
       /\ Count({"fallback"}) = 1
            => /\ AfterFallback \in
                    { <<>>, << "load_none" >>, << "read_failed" >>,
                      << "deserialize_failed" >>, << "load" >>,
                      << "load", "record_verify" >>,
                      << "load", "record_verify", "cache_access" >> }
               /\ Count({"transport"}) = 1
               /\ (pc = "idle" /\ Last(log) = "load_none")
                     => result = ReturnErr(online_error)
               /\ (pc = "idle" /\ Last(log) = "read_failed")
                     => result = ReturnErr(CacheIO("Failed to read cache file"))
               /\ (pc = "idle" /\ Last(log) = "deserialize_failed")
                     => result = ReturnErr(CacheIO("Failed to deserialize cache"))
               /\ (pc = "idle" /\ Last(log) = "record_verify")
                     => \E n \in NowPoints :
                           result = ReturnErr(CacheRecord_verify(record[1],
                                        config.public_key_hex, config.offline_grace, n))
               /\ (pc = "idle" /\ Last(log) = "cache_access" /\ result.ret = "Err")
                     => result.err \in
                          { ProtocolError("Cache parse error"),
                            check_access_with_usage(
                                from_keygen_response(record[1].body),
                                config.required_entitlements, U64(0, 0)) }

\* validate_key has returned CacheExpired from the offline path after one
\* transport request and one load.
C29_Witness ==
    /\ op = "validate_key" /\ pc = "idle"
    /\ log = << "validate_key", "hash_license_key", "transport", "fallback",
                "load", "record_verify" >>
    /\ result = ReturnErr(CacheExpired)

\* The manager under one configuration and one clock reading, started with
\* the cache a former run left (no file, or a record saved then), and with
\* the scheduling a thread gives a call: a step of the call that can be
\* taken is taken in the end.  New calls are under no such obligation.
InitLive ==
    /\ config = test_config(TEST_PUBLIC_KEY_HEX, from_secs(GraceSecs))
    /\ now \in NowPoints
    /\ \E r \in {None} \cup {Some(x) : x \in SaveRecords} :
          /\ files = [s \in Stems |-> IF IsSome(r) THEN Some(to_json(r[1])) ELSE None]
          /\ saved_at = [s \in Stems |-> IF IsSome(r) THEN Some(r[1].cached_at) ELSE None]
    /\ tmps = [h \in Hashes |-> None]
    /\ pc = "idle"
    /\ op = ""
    /\ license_key = ""
    /\ response = None
    /\ online_error = Ok
    /\ record = None
    /\ result = Pending
    /\ log = <<>>

NextLive ==
    \/ \E k \in Keys : validate_key_Enter(k)
    \/ CallStep

LiveSpec == InitLive /\ [][NextLive]_vars /\ WF_vars(CallStep)

\* C29: every validate_key call terminates after at most one transport
\* request and at most one cache load; an error produced on the offline
\* path is returned as it is and starts neither a second online attempt
\* nor a second fallback.
C29_NoFurtherFallback ==
    /\ []C29_Steps
    /\ (op = "validate_key" /\ pc # "idle") ~> (pc = "idle")

(***************************************************************************)
(* What an Ok result holds (specification Spec).                           *)
(***************************************************************************)
\* Whether the last call returned from validate_online (line 210).
ReturnedOnline == op = "validate_key" /\ Last(log) = "rename"
\* The LicenseState put into the ValidationResult: that of the response
\* (lines 189 and 210-215) or of the cached record (lines 144, 154-159 and
\* 243, 248-253).
ReturnedState ==
    IF ReturnedOnline THEN from_keygen_response(response[1].body)
    ELSE from_keygen_response(record[1].body)

\* C30: every Ok(ValidationResult) of validate_key and check_access has
\* valid = true, a state that is valid and whose entitlements contain every
\* required entitlement of the configuration, and current_uses <= max_uses
\* when both are present; from_cache is false exactly when validate_key
\* returned from its online path.
C30_OkResult ==
    (pc = "idle" /\ result.ret = "Ok")
    => /\ op \in {"validate_key", "check_access"}
       /\ result.valid
       /\ ReturnedState.valid
       /\ \A i \in 1..Len(config.required_entitlements) :
             Contains(ReturnedState.entitlements, config.required_entitlements[i])
       /\ (IsSome(ReturnedState.max_uses) /\ IsSome(ReturnedState.current_uses))
             => u64_le(ReturnedState.current_uses[1], ReturnedState.max_uses[1])
       /\ (result.from_cache = FALSE) <=> ReturnedOnline
       /\ result.from_cache
             => /\ Last(log) = "cache_access"
                /\ ("transport" \in {log[i] : i \in 1..Len(log)}) <=> (op = "validate_key")

\* validate_key has returned Ok from the cache, for a license whose uses
\* have reached its cap.
C30_Witness ==
    /\ pc = "idle" /\ result.ret = "Ok"
    /\ op = "validate_key"
    /\ result.from_cache
    /\ ReturnedState.max_uses = Some(U64(0, 5))
    /\ ReturnedState.current_uses = Some(U64(0, 5))

\* validate_key has returned Ok from the service.
C30_WitnessOnline ==
    /\ pc = "idle" /\ result.ret = "Ok"
    /\ op = "validate_key"
    /\ ~result.from_cache
    /\ IsSome(files[license_path(key_hash)])

(***************************************************************************)
(* The stored record across failed calls (specification Spec).             *)
(***************************************************************************)
\* A step of a validate_key call other than the rename that ends a
\* successful online attempt.
StepOfFailingCall ==
    /\ op = "validate_key"
    /\ pc # "idle"
    /\ ~(pc = "rename" /\ result'.ret = "Ok")
\* The step at which validate_offline or check_access verifies the record
\* it loaded, and the step that follows a passed verification.
AnyVerifyStep == pc = "cache_verify" /\ pc' # pc
AnyAccessStep == pc = "cache_parse" /\ pc' # pc
\* The offline grace in seconds fits an i64.
GraceFits == as_i64(as_secs(config.offline_grace)) = as_secs(config.offline_grace)

\* C31: a validate_key call whose online attempt fails, with InvalidLicense
\* or any other error, leaves the record an earlier successful call stored
\* as it is; and a later validate_key under a transport error, or a
\* check_access, that verifies this record at a clock reading t' with
\* 0 <= t' - cached_at <= offline_grace returns Ok with from_cache = true.
C31_RecordSurvivesFailedCall ==
    /\ [][StepOfFailingCall => UNCHANGED << files, saved_at >>]_vars
    /\ [][(/\ AnyVerifyStep
           /\ IsSome(saved_at[license_path(key_hash)])
           /\ AgeTicks >= 0
           /\ AgeWithin(AgeTicks, config.offline_grace))
          => pc' = "cache_parse"]_vars
    /\ [][AnyAccessStep => result' = ReturnOk([valid |-> TRUE], TRUE)]_vars

\* The same for every offline grace whose seconds fit an i64.
C31_RecordSurvivesWhenGraceFits ==
    /\ [][StepOfFailingCall => UNCHANGED << files, saved_at >>]_vars
    /\ [][(/\ AnyVerifyStep
           /\ GraceFits
           /\ IsSome(saved_at[license_path(key_hash)])
           /\ AgeTicks >= 0
           /\ AgeWithin(AgeTicks, config.offline_grace))
          => pc' = "cache_parse"]_vars
    /\ [][AnyAccessStep => result' = ReturnOk([valid |-> TRUE], TRUE)]_vars

\* A call has returned InvalidLicense from its online attempt while the
\* record of an earlier call is still in the cache file.
C31_InvalidLicenseKeepsRecord ==
    /\ pc = "idle" /\ op = "validate_key"
    /\ result = ReturnErr(InvalidLicense)
    /\ Last(log) = "return_online_error"
    /\ IsSome(saved_at[license_path(key_hash)])
    /\ IsSome(files[license_path(key_hash)])

(***************************************************************************)
(* The cache path leaves the store alone                                   *)
(***************************************************************************)
\* A step of check_access or of the offline fallback of validate_key: the
\* entry of check_access, the gate of validate_offline, the load, the
\* verification of the record and the access decision.
CachePathStep ==
    \/ pc \in {"offline", "load", "cache_verify", "cache_parse"} /\ pc' # pc
    \/ /\ pc = "idle"
       /\ op' = "check_access"
       /\ << op, license_key, result, log >>' # << op, license_key, result, log >>

\* What a call on the cache path returns from the store as it is and the
\* clock as it reads, when the cache file can be read.
CacheReadResult ==
    LET path == license_path(key_hash)
    IN IF IsNone(files[path]) THEN ReturnErr(no_record_error)
       ELSE LET loaded == from_json(files[path][1])
            IN IF ~IsOk(loaded.res) THEN ReturnErr(loaded.res)
               ELSE LET v == CacheRecord_verify(loaded.record[1],
                                                config.public_key_hex,
                                                config.offline_grace, now)
                    IN IF ~IsOk(v) THEN ReturnErr(v)
                       ELSE CachedOutcome(loaded.record[1])

\* C32: check_access and the offline fallback are read-only on the cache
\* store.  No step of theirs writes, deletes or rewrites a cache file or a
\* temp file, also not the step at which the record fails verification with
\* CacheTampered or CacheExpired; and what the call returns is a function of
\* the store and of the clock reading that verify takes (its only one), so
\* that the same call on an unchanged store at the same clock reading
\* returns the same result (a failure to read a file that exists set aside).
C32_CachePathReadOnly ==
    /\ [][CachePathStep => UNCHANGED << files, tmps, saved_at >>]_vars
    /\ [][(/\ pc \in {"load", "cache_verify"}
           /\ pc' \in {"idle", "cache_parse"}
           /\ Last(log') # "read_failed")
          => IF pc' = "idle"
             THEN result' = CacheReadResult
             ELSE CacheReadResult = CachedOutcome(StoredRecord(license_key))]_vars
    /\ [][(pc = "cache_parse" /\ pc' = "idle")
          => result' = CachedOutcome(StoredRecord(license_key))]_vars

\* check_access has returned CacheExpired for a record that is still in its
\* cache file.
C32_Witness ==
    /\ pc = "idle"
    /\ op = "check_access"
    /\ Last(log) = "record_verify"
    /\ result = ReturnErr(CacheExpired)
    /\ IsSome(files[license_path(key_hash)])
    /\ IsOk(from_json(files[license_path(key_hash)][1]).res)

\* The offline fallback of validate_key has returned CacheTampered for a
\* record that is still in its cache file.
C32_WitnessFallback ==
    /\ pc = "idle"
    /\ op = "validate_key"
    /\ Last(log) = "record_verify"
    /\ result = ReturnErr(CacheTampered)
    /\ IsSome(files[license_path(key_hash)])

(***************************************************************************)
(* The body of a response or record that carries no digest                 *)
(* (specification SpecPipeline)                                            *)
(***************************************************************************)
\* The bodies a record can hold: CacheRecord.body is a String.
StringBodies == { b \in Bodies : b.utf8 }

\* C33: when the Digest header is absent the body is covered by no check.
\* What verify_response, verify_response_signature_only and
\* CacheRecord::verify have returned for an input without digest is what
\* they return for the same input with any other body in place of its own;
\* in particular an input that verified still verifies.
C33_BodyNotCovered ==
    (pc = "verified" /\ IsNone(response[1].digest)) =>
        /\ op = "verify_response" =>
              \A b \in Bodies :
                 verify_response([response[1] EXCEPT !.body = b],
                                 config.public_key_hex, now) = online_error
        /\ op = "verify_response_signature_only" =>
              \A b \in Bodies :
                 verify_response_signature_only([response[1] EXCEPT !.body = b],
                                                config.public_key_hex) = online_error
        /\ op = "CacheRecord_verify" =>
              /\ IsNone(record[1].digest)
              /\ \A b \in StringBodies :
                    CacheRecord_verify([record[1] EXCEPT !.body = b],
                                       config.public_key_hex,
                                       config.offline_grace, now) = online_error

\* CacheRecord::verify has accepted a record without digest whose body says
\* the license is not valid.
C33_Witness ==
    /\ pc = "verified"
    /\ op = "CacheRecord_verify"
    /\ IsNone(record[1].digest)
    /\ record[1].body = BodyInvalid
    /\ IsOk(online_error)

\* verify_response has accepted a response without digest whose body is not
\* JSON.
C33_WitnessResponse ==
    /\ pc = "verified"
    /\ op = "verify_response"
    /\ IsNone(response[1].digest)
    /\ response[1].body = BodyNotJson
    /\ IsOk(online_error)

(***************************************************************************)
(* What the grace decision of CacheRecord::verify reads                    *)
(* (specification SpecRecord)                                              *)
(***************************************************************************)
\* Date headers far before and far after every clock reading of RecordNows.
SignedDates ==
    { DateHeader(0, 0), DateHeader(DateSecs, 0), DateHeader(2 * DateSecs, 0) }

\* The record with date d in place of its own and the service's signature
\* over the signing string of that date.
Resigned(rec, d) ==
    [rec EXCEPT !.date = d,
                !.signature = GoodSignature(
                    build_signing_string("post", rec.request_path, rec.host,
                                         d, rec.digest))[1]]

\* The record as built was answered with CacheExpired at this clock reading.
BuiltRecordExpired ==
    CacheRecord_verify(BuiltRecord, config.public_key_hex,
                       config.offline_grace, now) = CacheExpired

\* The cached_at now in the record lies in [now - offline_grace, now].
RecachedWithinGrace ==
    /\ record[1].cached_at <= now
    /\ AgeWithin(now - record[1].cached_at, config.offline_grace)

\* C34 as stated: the grace decision of CacheRecord::verify reads cached_at
\* only.  What verify returned for a record as built is what it returns for
\* the same record under any other signed date, however old or far ahead of
\* the clock; and an expired record verifies once its cached_at alone is
\* replaced by an instant of [now - offline_grace, now].
C34_GraceReadsCachedAtOnly ==
    /\ (pc = "verified" /\ log = <<>>) =>
          \A d \in SignedDates :
             CacheRecord_verify(Resigned(record[1], d), config.public_key_hex,
                                config.offline_grace, now) = online_error
    /\ (pc = "recached" /\ BuiltRecordExpired /\ RecachedWithinGrace)
          => IsOk(online_error)

\* The same with the replacement of cached_at claimed for the graces whose
\* seconds fit an i64 only.
C34_GraceReadsCachedAtWhenGraceFits ==
    /\ (pc = "verified" /\ log = <<>>) =>
          \A d \in SignedDates :
             CacheRecord_verify(Resigned(record[1], d), config.public_key_hex,
                                config.offline_grace, now) = online_error
    /\ (pc = "recached" /\ BuiltRecordExpired /\ RecachedWithinGrace /\ GraceFits)
          => IsOk(online_error)

\* An expired record has verified after its cached_at was replaced.
C34_ExpiredRecordRevived ==
    /\ pc = "recached"
    /\ BuiltRecordExpired
    /\ RecachedWithinGrace
    /\ GraceFits
    /\ IsOk(online_error)

\* Under a grace of 2^63 s the record is still answered with CacheExpired
\* after its cached_at was replaced by the clock reading itself.
C34_StillExpired ==
    /\ pc = "recached"
    /\ record[1].cached_at = now
    /\ online_error = CacheExpired

(***************************************************************************)
(* What an Ok of check_access rests on (specification Spec)                *)
(***************************************************************************)
\* check_access passes the verification of the record it loaded.
CachedVerifyPasses == CachedVerifyStep /\ pc' = "cache_parse"

\* A successful online validate_key stored the record of the stem of the
\* key, and no delete or clear has removed it since.
StoredOnline == IsSome(saved_at[license_path(key_hash)])

C35_WitnessFresh ==
    /\ pc = "idle"
    /\ op = "check_access"
    /\ result = ReturnOk([valid |-> TRUE], TRUE)
    /\ StoredOnline
    /\ AgeTicks = 0

(***************************************************************************)
(* The status of the response (specification Spec)                         *)
(***************************************************************************)
Statuses == {200, 204, 404, 500}

\* The response in hand under another status.
WithStatus(st) == [response[1] EXCEPT !.status = st]

\* The step of validate_online that verifies the response in hand.
OnlineVerifyStep == op = "validate_key" /\ pc = "verify" /\ pc' # pc

\* The record validate_online builds of the response in hand: it has no
\* field for the status.
RecordOfResponse(cached_at) ==
    CacheRecord_new(unwrap_or_default(response[1].date, EmptyDate),
                    unwrap_or_default(response[1].signature, <<>>),
                    response[1].digest, response[1].body,
                    response[1].request_path, response[1].host, cached_at)

\* C36: the status of the response is captured and never consulted.  The
\* verification of validate_online goes the way verify_response goes for
\* the same response under any other status, with the same error when it
\* fails; a call that went through every step returns Ok with the state of
\* the body and from_cache = false and leaves in the cache file the record
\* of the headers and the body, whatever the status was, so that a response
\* with the service's signature, a fresh date and a valid body is accepted
\* and cached under a status that is not 2xx as well.
C36_StatusNotConsulted ==
    /\ [][OnlineVerifyStep =>
            \A st \in Statuses :
               LET v == verify_response(WithStatus(st), config.public_key_hex, now)
               IN IF IsOk(v) THEN pc' = "parse"
                  ELSE pc' = "offline" /\ online_error' = v]_vars
    /\ [][(op = "validate_key" /\ pc = "rename" /\ result'.ret = "Ok")
            => /\ ResponseAccepted
               /\ result' = ReturnOk(from_keygen_response(response[1].body), FALSE)
               /\ files'[license_path(key_hash)]
                     = Some(to_json(RecordOfResponse(record[1].cached_at)))]_vars

\* validate_key has returned Ok from its online path and stored the record
\* of a response whose status is 404.
C36_Witness ==
    /\ pc = "idle"
    /\ op = "validate_key"
    /\ Last(log) = "rename"
    /\ response[1].status = 404
    /\ result = ReturnOk([valid |-> TRUE], FALSE)
    /\ files[license_path(key_hash)]
          = Some(to_json(RecordOfResponse(CachedAt)))

(***************************************************************************)
(* A failed FileCache::save (specification Spec)                           *)
(***************************************************************************)
SaveFailedSteps == {"write_temp_failed", "rename_failed"}

\* The save of the call under way, or of the last call, has failed.
SaveFailed == \E i \in 1..Len(log) : log[i] \in SaveFailedSteps

\* The step at which save fails, and the steps of the call after it.
SaveFailureStep ==
    /\ op = "validate_key"
    /\ pc # "idle"
    /\ \/ pc \in {"save", "rename"} /\ pc' = "offline"
       \/ SaveFailed

\* C37: when verification, decoding and the access checks of validate_online
\* have all passed and FileCache::save fails, validate_key returns the
\* CacheIO error of save: it is not a transport error, so the call goes on
\* to no cache read; and the cache file of the key is left as it was, so
\* that load still returns the record stored before, if there was one.
C37_SaveFailureIsCacheIO ==
    /\ []((op = "validate_key" /\ SaveFailed) =>
             /\ SubSeq(log, 1, Len(OnlineSteps)) = OnlineSteps
             /\ ResponseAccepted
             /\ online_error.kind = "CacheIO"
             /\ ~is_transport(online_error)
             /\ pc \in {"offline", "idle"}
             /\ pc = "idle" => result = ReturnErr(online_error)
             /\ \A i \in 1..Len(log) : log[i] \notin CacheReadSteps)
    /\ [][SaveFailureStep => UNCHANGED << files, saved_at >>]_vars

\* validate_key has returned CacheIO after a failed rename, and the cache
\* file still holds the record an earlier call stored, not the new one.
C37_Witness ==
    /\ pc = "idle"
    /\ op = "validate_key"
    /\ log = OnlineSteps \o << "write_temp", "rename_failed", "return_online_error" >>
    /\ result = ReturnErr(CacheIO("Failed to rename cache file"))
    /\ StoredOnline
    /\ files[license_path(key_hash)] # Some(to_json(record[1]))
    /\ IsOk(from_json(files[license_path(key_hash)][1]).res)

\* validate_key has returned CacheIO after a failed write of the temp file,
\* with no cache file of the key.
C37_WitnessWrite ==
    /\ pc = "idle"
    /\ op = "validate_key"
    /\ log = OnlineSteps \o << "write_temp_failed", "return_online_error" >>
    /\ result = ReturnErr(CacheIO("Failed to write temp file"))
    /\ IsNone(files[license_path(key_hash)])

(***************************************************************************)
(* meter/usage.rs: the meter with saves that fail                          *)
(* (specification SpecMeterFault: the increments whose save returns an     *)
(* error, next to those of SpecMeter and its reloads, at one clock reading *)
(* of MeterNows)                                                           *)
(***************************************************************************)
MeterIO(msg) == [kind |-> "MeterIO", age_seconds |-> 0, code |-> msg]

\* What the temp file holds after a save that failed: nothing new when the
\* directory could not be made or the write failed at once, a part of the
\* text when the write broke off, the whole text when the rename failed.
FailedSaves(json) ==
    { [err |-> MeterIO("Failed to create dir"), tmp |-> tmps[MeterTempPath]],
      [err |-> MeterIO("Failed to write temp"), tmp |-> Some(SubSeq(json, 1, 2))],
      [err |-> MeterIO("Failed to rename"), tmp |-> Some(json)] }

\* An increment with a failed save that takes the count back.
meter_increment_save_fails_RollsBack ==
    /\ record.lifetime_count < MaxCount
    /\ \E f \in FailedSaves(stats_to_json(UsageStats_increment(record, now))) :
          /\ tmps' = [tmps EXCEPT ![MeterTempPath] = f.tmp]
          /\ result' = Returned(f.err)
    /\ op' = "increment"
    /\ UNCHANGED << config, now, files, pc, license_key, response, online_error,
                    log, record, saved_at >>

\* UsageMeter::increment (lines 133-136) when save (lines 159-177) returns
\* an error: the stats are incremented in memory first, and the error of
\* save is returned with the meter file as it was.
meter_increment_save_fails ==
    /\ record.lifetime_count < MaxCount
    /\ record' = UsageStats_increment(record, now)
    /\ \E f \in FailedSaves(stats_to_json(record')) :
          /\ tmps' = [tmps EXCEPT ![MeterTempPath] = f.tmp]
          /\ result' = Returned(f.err)
    /\ op' = "increment"
    /\ saved_at' = Some(now)
    /\ UNCHANGED << config, now, files, pc, license_key, response, online_error,
                    log >>

NextMeterFault ==
    \/ meter_increment
    \/ meter_increment_save_fails
    \/ meter_lifetime_count
    \/ meter_Reload

SpecMeterFault == InitMeter /\ [][NextMeterFault]_vars

\* The "YYYY-MM" of a "YYYY-MM-DD".
MonthPart(date) == SubSeq(date, 1, 7)

\* C38: starting from empty usage stats, after any sequence of increments
\* under clock readings in any order, daily_count <=
\* monthly_count <= lifetime_count, daily_date and monthly_period are both
\* set or both unset and the month part of daily_date is monthly_period, and
\* at every clock reading get_daily_count <= get_monthly_count <=
\* lifetime_count.
C38_CounterOrder ==
    /\ record.daily_count <= record.monthly_count
    /\ record.monthly_count <= record.lifetime_count
    /\ IsSome(record.daily_date) <=> IsSome(record.monthly_period)
    /\ IsSome(record.daily_date)
          => MonthPart(record.daily_date[1]) = record.monthly_period[1]
    /\ \A t \in MeterNows :
          /\ get_daily_count(record, t) <= get_monthly_count(record, t)
          /\ get_monthly_count(record, t) <= record.lifetime_count

\* Three increments, the last on 1971-12-31 after one in a later month: the
\* clock went back, and the daily and monthly counts started again.
C38_Witness ==
    /\ op = "increment"
    /\ record.lifetime_count = 3
    /\ record.monthly_count = 1
    /\ record.daily_count = 1
    /\ record.daily_date = Some(format_date(729 * SecsPerDay * TicksPerSec))

\* The stats UsageMeter::new would read from the meter file as it is.
Persisted == UsageMeter_new.stats

\* An increment has returned in this step, with an error of save.
IncrementFailed ==
    /\ op' = "increment"
    /\ << op, result, record, tmps >>' # << op, result, record, tmps >>
    /\ result' # Returned(Ok)

\* C39: UsageMeter::increment updates the stats in memory before it saves.
\* When the save fails the call returns a MeterIO error, the daily, monthly
\* and lifetime counts in memory are those of the increment, and the meter
\* file keeps its content, so the stats in memory and the stats in the file
\* differ; they stay different through every read, and an increment that
\* returns Ok makes the file hold the stats in memory again.
C39_IncrementBeforeSave ==
    /\ [][IncrementFailed =>
            /\ result'.value.kind = "MeterIO"
            /\ record' = UsageStats_increment(record, now)
            /\ record'.lifetime_count = record.lifetime_count + 1
            /\ record'.daily_count >= 1 /\ record'.monthly_count >= 1
            /\ files' = files
            /\ Persisted' # record']_vars
    /\ [][(Persisted # record /\ op' \notin {"increment", "new"})
            => (Persisted' # record' /\ record' = record)]_vars
    /\ [][(op' = "increment" /\ record' # record /\ result' = Returned(Ok))
            => Persisted' = record']_vars

\* An increment has failed at the rename after an earlier one was saved:
\* the lifetime count is 2 in memory and 1 in the meter file.
C39_Witness ==
    /\ op = "increment"
    /\ result = Returned(MeterIO("Failed to rename"))
    /\ record.lifetime_count = 2
    /\ IsSome(files[MeterPath])
    /\ Persisted.lifetime_count = 1
    /\ tmps[MeterTempPath] = Some(stats_to_json(record))

\* An increment has been saved after one that failed: the file holds the
\* count of both.
C39_WitnessResync ==
    /\ op = "increment"
    /\ result = Returned(Ok)
    /\ record.lifetime_count = 2
    /\ Persisted = record
    /\ IsSome(saved_at)
    /\ record.daily_count = 2

====
